---------------------------- MODULE Spec2Model ----------------------------
(***************************************************************************)
(* A model of the cost-basis engine of crypto-taxes                        *)
(* (src/backend/kraken.py): compute_taxes partitions the trade ledger into *)
(* acquisitions and disposals, and get_ledger_after_tax_computation        *)
(* matches every disposal against the open lots, most recent lot first.    *)
(*                                                                         *)
(* Amounts are Decimal in the source.  Here they are integers: a quantity  *)
(* counts units of the smallest quantity step and a price is the price of  *)
(* one such unit, so every product and difference the code forms is exact, *)
(* as it is in Decimal for operands of this size.  A datetime is the       *)
(* integer yyyymm, and .year is its quotient by 100.                       *)
(***************************************************************************)
EXTENDS Integers, Sequences, FiniteSets, TLC

(* Bound of the model: the number of rows of the trade ledger. *)
MaxRows == 3

Assets == {"A", "B"}
DateTimes == {202306, 202312, 202406}
(* Signed quantities of a trade.  A: buys of 1 or 2 units, sells of 1 or 3. *)
(* B, the second asset: buys of 2 units, sells of 1.                        *)
Quantities(a) == IF a = "A" THEN {-3, -1, 1, 2} ELSE {-1, 2}

VARIABLES
    input_ledger_df,                \* the ledger handed to compute_taxes
    pc,                             \* position in compute_taxes / get_ledger_after_tax_computation
    input_quantity_to_sell_df,      \* the disposals, in processing order
    sell_pos,                       \* the row of input_quantity_to_sell_df being processed
    ledger_out_df,                  \* index label -> open lot
    valid_ledger_df,                \* the lots still to iterate for this disposal (snapshots)
    remaining_quantity_to_be_sold,
    gain,
    initial_purchase_value,
    final_sale_value,
    output_gains,                   \* (tax_year, asset) -> Decimal
    output_initial_values,
    output_final_values,
    gains_df,                       \* the records returned
    matches,                        \* history: every lot consumption made so far
    input_ledger_without_sells_df,  \* the table handed to get_ledger_after_tax_computation
    ledger_out_ref,                 \* the DataFrame object the name ledger_out_df is bound to
    (* calculate_italian_crypto_taxes_2025, lines 766-778 *)
    tax_pc,                         \* position in the tax assessment
    gains_final_df,                 \* the records compute_taxes returned
    gains_by_year_asset,            \* (year, asset) -> sums
    gains_by_year,                  \* year -> sums
    taxes,                          \* year -> the column gains_by_year["taxes"]
    (* calculate_year_end_balances, lines 451-552 *)
    bal_pc,                         \* position in calculate_year_end_balances
    ledger_df,                      \* the ledger handed to calculate_year_end_balances
    OHLC_df,                        \* the price series: (date, crypto) -> price
    years,                          \* the years of the ledger, ascending
    year_pos,                       \* the position in years of the year being processed
    balance_by_asset,               \* asset -> running balance
    asset_order,                    \* the keys of balance_by_asset in insertion order
    asset_pos,                      \* the position in asset_order of the asset being valued
    year_summary,                   \* the entries of the year
    year_total_value,
    stdout,                         \* year -> what was printed for the year
    warnings,                       \* the warnings printed, as (year, asset, text)
    returned,                       \* the value returned
    year_balances,                  \* history: year -> balance_by_asset of the year
    (* the wallet layer and the retrieval of the ledger: one object each *)
    wallet,                         \* a KrakenWallet and the calls made on it
    portfolio,                      \* a Portfolio and its wallet file
    credentials,                    \* the credential file and the setup requests
    retrieval,                      \* the locals of retrieve_all_ledger_data
    merge                           \* the locals of _synchronize_transactions

lot_vars == <<input_ledger_df, pc, input_quantity_to_sell_df, sell_pos, ledger_out_df,
          valid_ledger_df, remaining_quantity_to_be_sold, gain, initial_purchase_value,
          final_sale_value, output_gains, output_initial_values, output_final_values,
          gains_df, matches, input_ledger_without_sells_df, ledger_out_ref>>

tax_vars == <<tax_pc, gains_final_df, gains_by_year_asset, gains_by_year, taxes>>

balance_vars == <<bal_pc, ledger_df, OHLC_df, years, year_pos, balance_by_asset, asset_order,
                  asset_pos, year_summary, year_total_value, stdout, warnings, returned,
                  year_balances>>

io_vars == <<wallet, portfolio, credentials, retrieval, merge>>

core_vars == <<lot_vars, tax_vars, balance_vars>>

vars == <<lot_vars, tax_vars, balance_vars, io_vars>>

---------------------------------------------------------------------------
(* Helpers *)

(* The sum of f[i] over the i of S that are in 1..n. *)
RECURSIVE SumOver(_, _, _)
SumOver(f, S, n) ==
    IF n = 0 THEN 0
    ELSE (IF n \in S THEN f[n] ELSE 0) + SumOver(f, S, n - 1)

(* All orderings of the finite set S, as sequences without repetition. *)
Orderings(S) ==
    {p \in [1..Cardinality(S) -> S] : \A i, j \in DOMAIN p : i # j => p[i] # p[j]}

(* datetime.year *)
Year(dt) == dt \div 100

(* A row of the trade ledger as main builds it: a buy has quantity > 0 and   *)
(* total < 0 (reference currency spent), a sell has quantity < 0 and         *)
(* total > 0, and price = total / quantity * -1.                             *)
TradeRow(a, dt, q, p) ==
    [asset |-> a, datetime |-> dt, quantity |-> q, price |-> p, total |-> -(q * p)]

(* The unit price of a trade of the bounded ledgers: the price of its asset  *)
(* at its datetime (A rises then falls, B falls then rises).                 *)
Price(a, dt) ==
    CASE a = "A" /\ dt = 202306 -> 2
      [] a = "A" /\ dt = 202312 -> 5
      [] a = "A" /\ dt = 202406 -> 3
      [] a = "B" /\ dt = 202306 -> 4
      [] a = "B" /\ dt = 202312 -> 1
      [] a = "B" /\ dt = 202406 -> 6

TradeRows ==
    UNION {{TradeRow(a, dt, q, Price(a, dt)) : dt \in DateTimes, q \in Quantities(a)} : a \in Assets}

Ledgers == UNION {[1..n -> TradeRows] : n \in 1..MaxRows}

---------------------------------------------------------------------------
(* compute_taxes *)

(* input_ledger_sim_df[quantity < 0], quantity * -1 *)
SellRow(r) == [asset |-> r.asset, datetime |-> r.datetime, quantity |-> r.quantity * (-1),
               price |-> r.price, total |-> r.total]

(* input_ledger_sim_df[quantity >= 0], total * -1 *)
BuyRow(r) == [asset |-> r.asset, datetime |-> r.datetime, quantity |-> r.quantity,
              price |-> r.price, total |-> r.total * (-1), isvalid |-> TRUE]

SellPositions(ledger) == {i \in DOMAIN ledger : ledger[i].quantity < 0}

(* Mutant: the disposals are left in the order of the input. *)
SortedAscending_Unsorted(ledger, p) ==
    \A i \in 1..(Len(p) - 1) : p[i] < p[i + 1]

(* sort_values(by=['datetime'], ascending=True): rows of equal datetime in  *)
(* an order the sort does not fix.                                          *)
SortedAscending(ledger, p) ==
    \A i \in 1..(Len(p) - 1) : ledger[p[i]].datetime <= ledger[p[i + 1]].datetime

(* The acquisitions in their input order, re-labelled 1..n by reset_index.  *)
RECURSIVE SelectBuys(_, _)
SelectBuys(ledger, i) ==
    IF i > Len(ledger) THEN <<>>
    ELSE IF ledger[i].quantity >= 0
         THEN <<BuyRow(ledger[i])>> \o SelectBuys(ledger, i + 1)
         ELSE SelectBuys(ledger, i + 1)

EmptyMap == [k \in {} |-> 0]

(* Mutant: the frame is not copied, the new name is bound to the same object. *)
Copy_Alias(object, fresh) == object

(* df.copy() (lines 333, 433, 436, 443): a new DataFrame object, named here  *)
(* after the variable it is bound to.                                        *)
Copy(object, fresh) == fresh

(* The caller's ledger after the column assignments of lines 437 and 444,   *)
(* which write to the objects sold and buys.                                *)
AfterColumnWrites(ledger, sold, buys) ==
    [i \in DOMAIN ledger |->
        IF ledger[i].quantity < 0 /\ sold = "input_ledger_df"
        THEN [ledger[i] EXCEPT !.quantity = @ * (-1)]
        ELSE IF ledger[i].quantity >= 0 /\ buys = "input_ledger_df"
             THEN [ledger[i] EXCEPT !.total = @ * (-1)]
             ELSE ledger[i]]

(* A row of input_ledger_without_sells_df: the columns of the caller's table. *)
LedgerRow(r) == [asset |-> r.asset, datetime |-> r.datetime, quantity |-> r.quantity,
                 price |-> r.price, total |-> r.total]

compute_taxes ==
    /\ pc = "compute_taxes"
    /\ \E p \in Orderings(SellPositions(input_ledger_df)) :
          /\ SortedAscending(input_ledger_df, p)
          /\ input_quantity_to_sell_df' = [i \in DOMAIN p |-> SellRow(input_ledger_df[p[i]])]
    /\ ledger_out_df' = SelectBuys(input_ledger_df, 1)
    /\ LET input_ledger_sim_df == Copy("input_ledger_df", "input_ledger_sim_df")
           sold == Copy(input_ledger_sim_df, "input_quantity_already_sold_df")
           buys == Copy(input_ledger_sim_df, "input_ledger_without_sells_df")
           rows == SelectBuys(input_ledger_df, 1)
       IN /\ input_ledger_df' = AfterColumnWrites(input_ledger_df, sold, buys)
          /\ input_ledger_without_sells_df' = [j \in DOMAIN rows |-> LedgerRow(rows[j])]
          /\ ledger_out_ref' = Copy("input_ledger_without_sells_df", "ledger_out_df")
    /\ output_gains' = EmptyMap
    /\ output_initial_values' = EmptyMap
    /\ output_final_values' = EmptyMap
    /\ sell_pos' = 1
    /\ pc' = "for_sell"
    /\ UNCHANGED <<valid_ledger_df, remaining_quantity_to_be_sold, gain,
                   initial_purchase_value, final_sale_value, gains_df, matches>>
    /\ UNCHANGED <<tax_vars, balance_vars, io_vars>>

---------------------------------------------------------------------------
(* get_ledger_after_tax_computation *)

input_row == input_quantity_to_sell_df[sell_pos]

(* Mutant: the filter admits a lot acquired at the instant of the disposal. *)
IsEligible_NotStrict(row, sell) ==
    /\ row.asset = sell.asset
    /\ row.datetime <= sell.datetime
    /\ row.isvalid

(* Mutant: the filter admits the lots of every asset. *)
IsEligible_AnyAsset(row, sell) ==
    /\ row.datetime < sell.datetime
    /\ row.isvalid

(* The filter of lines 356-360: same asset, acquired strictly before the    *)
(* disposal, still valid.                                                   *)
IsEligible(row, sell) ==
    /\ row.asset = sell.asset
    /\ row.datetime < sell.datetime
    /\ row.isvalid

Eligible(ledger, sell) == {i \in DOMAIN ledger : IsEligible(ledger[i], sell)}

(* Mutant: the lots are taken oldest first (FIFO). *)
SortedDescending_Ascending(ledger, p) ==
    \A i \in 1..(Len(p) - 1) : ledger[p[i]].datetime <= ledger[p[i + 1]].datetime

(* sort_values(by=['datetime'], ascending=False) *)
SortedDescending(ledger, p) ==
    \A i \in 1..(Len(p) - 1) : ledger[p[i]].datetime >= ledger[p[i + 1]].datetime

(* output_gains.get((tax_year, asset)) is None: the three dictionaries get   *)
(* the key with Decimal(0).                                                  *)
InitKey(d, k) == IF k \in DOMAIN d THEN d ELSE [x \in DOMAIN d \cup {k} |-> IF x = k THEN 0 ELSE d[x]]

(* Mutant: the bucket is the year of the oldest earlier acquisition of the asset. *)
SellKey_AcquisitionYear(sell) ==
    LET ds == {input_ledger_df[i].datetime : i \in {j \in DOMAIN input_ledger_df :
                    /\ input_ledger_df[j].quantity > 0
                    /\ input_ledger_df[j].asset = sell.asset
                    /\ input_ledger_df[j].datetime < sell.datetime}}
    IN <<Year(IF ds = {} THEN sell.datetime ELSE CHOOSE d \in ds : \A e \in ds : d <= e), sell.asset>>

SellKey(sell) == <<Year(sell.datetime), sell.asset>>

BeginDisposal ==
    /\ pc = "for_sell"
    /\ sell_pos <= Len(input_quantity_to_sell_df)
    /\ remaining_quantity_to_be_sold' = input_row.quantity
    /\ gain' = 0
    /\ initial_purchase_value' = 0
    /\ final_sale_value' = 0
    /\ output_gains' = InitKey(output_gains, SellKey(input_row))
    /\ output_initial_values' = InitKey(output_initial_values, SellKey(input_row))
    /\ output_final_values' = InitKey(output_final_values, SellKey(input_row))
    /\ IF input_row.quantity > 0
       THEN /\ \E p \in Orderings(Eligible(ledger_out_df, input_row)) :
                  /\ SortedDescending(ledger_out_df, p)
                  /\ valid_ledger_df' = [i \in DOMAIN p |-> [index |-> p[i], row |-> ledger_out_df[p[i]]]]
            /\ pc' = "for_lot"
       ELSE /\ valid_ledger_df' = <<>>
            /\ pc' = "save"
    /\ UNCHANGED <<input_ledger_df, input_quantity_to_sell_df, sell_pos, ledger_out_df,
                   gains_df, matches, input_ledger_without_sells_df, ledger_out_ref>>
    /\ UNCHANGED <<tax_vars, balance_vars, io_vars>>

---------------------------------------------------------------------------
(* The matching loop, lines 365-388: one action per iteration.  ledger_row  *)
(* is the row of valid_ledger_df, the copy taken when the disposal began.   *)

index == valid_ledger_df[1].index
ledger_row == valid_ledger_df[1].row

(* line 368: the disposal takes the entire quantity of the row *)
UsesEntireRow(remaining, row) == remaining > row.quantity

(* line 370: original_cost of a row used entirely *)
EntireOriginalCost(row) == row.total

(* Mutant: the cost of a part of a row is taken at the price of the sale. *)
PartialOriginalCost_SellPrice(remaining, row) == remaining * input_row.price

(* line 380: original_cost of a row used in part *)
PartialOriginalCost(remaining, row) == remaining * row.price

(* Mutant: the proceeds count the whole unmatched quantity of the disposal. *)
OutputTotal_Unmatched(quantity, sell) == remaining_quantity_to_be_sold * sell.price

(* lines 369, 379: output_total *)
OutputTotal(quantity, sell) == quantity * sell.price

(* Mutant: the cost is not subtracted from the gain. *)
AccumulatedGain_NoCost(g, output_total, original_cost) == g + output_total

(* lines 371, 381 *)
AccumulatedGain(g, output_total, original_cost) == g + output_total - original_cost

(* Mutant: the quantity written back is the quantity the row had. *)
RemainingQuantity_Unchanged(row, remaining) == row.quantity

(* line 378 *)
RemainingQuantity(row, remaining) == row.quantity - remaining

Match(taken, cost, proceeds, entire) ==
    [sell |-> sell_pos, index |-> index, asset |-> ledger_row.asset,
     lot_datetime |-> ledger_row.datetime, sell_datetime |-> input_row.datetime,
     taken |-> taken, cost |-> cost, proceeds |-> proceeds, entire |-> entire]

MatchEntire ==
    /\ pc = "for_lot"
    /\ valid_ledger_df # <<>>
    /\ remaining_quantity_to_be_sold > 0
    /\ UsesEntireRow(remaining_quantity_to_be_sold, ledger_row)
    /\ LET output_total == OutputTotal(ledger_row.quantity, input_row)
           original_cost == EntireOriginalCost(ledger_row)
       IN /\ gain' = AccumulatedGain(gain, output_total, original_cost)
          /\ initial_purchase_value' = initial_purchase_value + original_cost
          /\ final_sale_value' = final_sale_value + output_total
          /\ remaining_quantity_to_be_sold' = remaining_quantity_to_be_sold - ledger_row.quantity
          /\ ledger_out_df' = [ledger_out_df EXCEPT ![index].isvalid = FALSE]
          /\ matches' = Append(matches, Match(ledger_row.quantity, original_cost, output_total, TRUE))
    /\ valid_ledger_df' = Tail(valid_ledger_df)
    /\ UNCHANGED <<input_ledger_df, pc, input_quantity_to_sell_df, sell_pos, output_gains,
                   output_initial_values, output_final_values, gains_df,
                   input_ledger_without_sells_df, ledger_out_ref>>
    /\ UNCHANGED <<tax_vars, balance_vars, io_vars>>

(* lines 385, 387: ledger_out_df.at[index, "quantity"] and .at[index, "total"] *)
(* write to the object ledger_out_df is bound to; table is the caller's.      *)
WrittenThrough(table, object, i, quantity, total) ==
    IF object = "input_ledger_without_sells_df"
    THEN [table EXCEPT ![i].quantity = quantity, ![i].total = total]
    ELSE table

MatchPartial ==
    /\ pc = "for_lot"
    /\ valid_ledger_df # <<>>
    /\ remaining_quantity_to_be_sold > 0
    /\ ~UsesEntireRow(remaining_quantity_to_be_sold, ledger_row)
    /\ LET remaining_quantity == RemainingQuantity(ledger_row, remaining_quantity_to_be_sold)
           output_total == OutputTotal(remaining_quantity_to_be_sold, input_row)
           original_cost == PartialOriginalCost(remaining_quantity_to_be_sold, ledger_row)
       IN /\ gain' = AccumulatedGain(gain, output_total, original_cost)
          /\ initial_purchase_value' = initial_purchase_value + original_cost
          /\ final_sale_value' = final_sale_value + output_total
          /\ ledger_out_df' = [ledger_out_df EXCEPT ![index].quantity = remaining_quantity,
                                                    ![index].total = ledger_row.total - original_cost]
          /\ matches' = Append(matches, Match(remaining_quantity_to_be_sold, original_cost,
                                              output_total, FALSE))
    /\ remaining_quantity_to_be_sold' = 0
    /\ valid_ledger_df' = Tail(valid_ledger_df)
    /\ input_ledger_without_sells_df' =
          WrittenThrough(input_ledger_without_sells_df, ledger_out_ref, index,
                         RemainingQuantity(ledger_row, remaining_quantity_to_be_sold),
                         ledger_row.total
                            - PartialOriginalCost(remaining_quantity_to_be_sold, ledger_row))
    /\ UNCHANGED <<input_ledger_df, pc, input_quantity_to_sell_df, sell_pos, output_gains,
                   output_initial_values, output_final_values, gains_df, ledger_out_ref>>
    /\ UNCHANGED <<tax_vars, balance_vars, io_vars>>

(* line 366 false: the disposal is satisfied, the remaining rows are passed over *)
MatchSkip ==
    /\ pc = "for_lot"
    /\ valid_ledger_df # <<>>
    /\ ~(remaining_quantity_to_be_sold > 0)
    /\ valid_ledger_df' = Tail(valid_ledger_df)
    /\ UNCHANGED <<input_ledger_df, pc, input_quantity_to_sell_df, sell_pos, ledger_out_df,
                   remaining_quantity_to_be_sold, gain, initial_purchase_value,
                   final_sale_value, output_gains, output_initial_values,
                   output_final_values, gains_df, matches,
                   input_ledger_without_sells_df, ledger_out_ref>>
    /\ UNCHANGED <<tax_vars, balance_vars, io_vars>>

(* line 390: ledger_out_df[ledger_out_df["isvalid"]] *)
ValidRows(ledger) == [i \in {j \in DOMAIN ledger : ledger[j].isvalid} |-> ledger[i]]

RemoveUsedRows ==
    /\ pc = "for_lot"
    /\ valid_ledger_df = <<>>
    /\ ledger_out_df' = ValidRows(ledger_out_df)
    /\ ledger_out_ref' = "ledger_out_df"
    /\ pc' = "save"
    /\ UNCHANGED <<input_ledger_df, input_quantity_to_sell_df, sell_pos, valid_ledger_df,
                   remaining_quantity_to_be_sold, gain, initial_purchase_value,
                   final_sale_value, output_gains, output_initial_values,
                   output_final_values, gains_df, matches, input_ledger_without_sells_df>>
    /\ UNCHANGED <<tax_vars, balance_vars, io_vars>>

(* lines 393-395 *)
SaveResults ==
    /\ pc = "save"
    /\ LET k == SellKey(input_row)
       IN /\ output_gains' = [output_gains EXCEPT ![k] = @ + gain]
          /\ output_initial_values' = [output_initial_values EXCEPT ![k] = @ + initial_purchase_value]
          /\ output_final_values' = [output_final_values EXCEPT ![k] = @ + final_sale_value]
    /\ sell_pos' = sell_pos + 1
    /\ pc' = "for_sell"
    /\ UNCHANGED <<input_ledger_df, input_quantity_to_sell_df, ledger_out_df, valid_ledger_df,
                   remaining_quantity_to_be_sold, gain, initial_purchase_value,
                   final_sale_value, gains_df, matches,
                   input_ledger_without_sells_df, ledger_out_ref>>
    /\ UNCHANGED <<tax_vars, balance_vars, io_vars>>

(* output_gains.keys(): the keys in the order they were first inserted, which *)
(* is the order of the disposals that introduced them.                        *)
RECURSIVE KeyOrder(_, _, _)
KeyOrder(sells, i, seen) ==
    IF i > Len(sells) THEN <<>>
    ELSE LET k == SellKey(sells[i])
         IN IF k \in seen THEN KeyOrder(sells, i + 1, seen)
            ELSE <<k>> \o KeyOrder(sells, i + 1, seen \cup {k})

(* lines 401-425: one row of results_data per key *)
ResultRow(k) ==
    [year |-> k[1], asset |-> k[2], gain |-> output_gains[k],
     initial_purchase_value |-> output_initial_values[k],
     final_sale_value |-> output_final_values[k]]

OutputResults ==
    /\ pc = "for_sell"
    /\ sell_pos > Len(input_quantity_to_sell_df)
    /\ LET keys == KeyOrder(input_quantity_to_sell_df, 1, {})
       IN gains_df' = [i \in DOMAIN keys |-> ResultRow(keys[i])]
    /\ pc' = "done"
    /\ UNCHANGED <<input_ledger_df, input_quantity_to_sell_df, sell_pos, ledger_out_df,
                   valid_ledger_df, remaining_quantity_to_be_sold, gain,
                   initial_purchase_value, final_sale_value, output_gains,
                   output_initial_values, output_final_values, matches,
                   input_ledger_without_sells_df, ledger_out_ref>>
    /\ UNCHANGED <<tax_vars, balance_vars, io_vars>>

---------------------------------------------------------------------------
(* Tax assessment: calculate_taxes_with_franchigia (lines 730-748) and the  *)
(* aggregation and assessment of calculate_italian_crypto_taxes_2025        *)
(* (lines 766-778; main repeats them at lines 172-184).                     *)
(*                                                                          *)
(* A yearly gain is a whole number of the reference currency.  The rate is  *)
(* Decimal(0.26), the decimal expansion of the binary float nearest to      *)
(* 0.26: 0.26000000000000000888178419700125...  A product with it is kept   *)
(* as two exact parts, hundredths (cents) and units of 10^-20 (e20), the    *)
(* second being the contribution of the first three digits of the excess    *)
(* of Decimal(0.26) over 0.26.                                              *)

(* Bound of the model: the number of records compute_taxes returned. *)
MaxRecords == 2

TaxYears == {2023, 2024, 2025}
Gains == {-2500, -2001, -2000, -500, 0, 500, 2000, 2001, 2500}
(* The cost basis of the records of an asset. *)
CostBasis(a) == IF a = "A" THEN 3000 ELSE 4000

GainRecord(y, a, g) ==
    [year |-> y, asset |-> a, gain |-> g, initial_purchase_value |-> CostBasis(a),
     final_sale_value |-> CostBasis(a) + g]

GainRecords == {GainRecord(y, a, g) : y \in TaxYears, a \in Assets, g \in Gains}

(* The frames compute_taxes can return: one record for a (year, asset). *)
GainFrames ==
    {df \in UNION {[1..n -> GainRecords] : n \in 0..MaxRecords} :
        \A i, j \in DOMAIN df :
            (df[i].year = df[j].year /\ df[i].asset = df[j].asset) => i = j}

Abs(x) == IF x < 0 THEN -x ELSE x

(* The threshold of lines 736, 742 and 745 *)
Threshold == 2000
(* The year of line 775 *)
ExemptionYear == 2024
(* Decimal(0.26) = (RateCents + RateExcess * 10^-18 + ...) / 100 *)
RateCents == 26
RateExcess == 888

DecimalZero == [cents |-> 0, e20 |-> 0]

(* x * Decimal(0.26), lines 748 and 776 *)
TimesRate(x) == [cents |-> x * RateCents, e20 |-> x * RateExcess]

(* Mutant: above the threshold the whole gain is taxed. *)
calculate_taxes_with_franchigia_WholeGain(gain_, year) ==
    IF Abs(gain_) <= Threshold THEN DecimalZero ELSE TimesRate(gain_)

calculate_taxes_with_franchigia(gain_, year) ==
    LET gain_abs == Abs(gain_)
    IN IF gain_abs <= Threshold
       THEN DecimalZero
       ELSE LET taxable_amount == IF gain_ > 0 THEN gain_ - Threshold ELSE gain_ + Threshold
            IN TimesRate(taxable_amount)

(* Mutant: the exemption is applied to every year. *)
UsesFranchigia_EveryYear(year) == TRUE

(* line 775: row.name == 2024 *)
UsesFranchigia(year) == year = ExemptionYear

(* lines 774-778: the function applied to a row of gains_by_year *)
TaxOfRow(row, name) ==
    IF UsesFranchigia(name)
    THEN calculate_taxes_with_franchigia(row.gain, name)
    ELSE TimesRate(row.gain)

Column(df, col) == [i \in DOMAIN df |-> df[i][col]]

(* Mutant: a group holds only the records with a gain. *)
GroupRows_GainsOnly(df, key, k) == {i \in DOMAIN df : key[i] = k /\ df[i].gain > 0}

(* The rows of df that groupby puts in the group of key value k. *)
GroupRows(df, key, k) == {i \in DOMAIN df : key[i] = k}

(* groupby(...).sum(): one row per key value, the sums of the columns *)
GroupBySum(df, key) ==
    [k \in {key[i] : i \in DOMAIN df} |->
        LET S == GroupRows(df, key, k)
        IN [gain |-> SumOver(Column(df, "gain"), S, Len(df)),
            initial_purchase_value |-> SumOver(Column(df, "initial_purchase_value"), S, Len(df)),
            final_sale_value |-> SumOver(Column(df, "final_sale_value"), S, Len(df))]]

(* lines 770-771 *)
GroupGains ==
    /\ tax_pc = "groupby"
    /\ gains_final_df # <<>>
    /\ gains_by_year_asset' =
          GroupBySum(gains_final_df,
                     [i \in DOMAIN gains_final_df |-> <<gains_final_df[i].year, gains_final_df[i].asset>>])
    /\ gains_by_year' = GroupBySum(gains_final_df, Column(gains_final_df, "year"))
    /\ tax_pc' = "apply"
    /\ UNCHANGED <<gains_final_df, taxes>>
    /\ UNCHANGED <<lot_vars, balance_vars, io_vars>>

(* line 770 for pd.DataFrame([]), the frame of no record (lines 398-427):   *)
(* it has no column year, groupby raises KeyError and line 825 re-raises.   *)
GroupGainsRaises ==
    /\ tax_pc = "groupby"
    /\ gains_final_df = <<>>
    /\ tax_pc' = "raised"
    /\ UNCHANGED <<gains_final_df, gains_by_year_asset, gains_by_year, taxes>>
    /\ UNCHANGED <<lot_vars, balance_vars, io_vars>>

(* lines 774-778 *)
ApplyTaxes ==
    /\ tax_pc = "apply"
    /\ taxes' = [y \in DOMAIN gains_by_year |-> TaxOfRow(gains_by_year[y], y)]
    /\ tax_pc' = "done"
    /\ UNCHANGED <<gains_final_df, gains_by_year_asset, gains_by_year>>
    /\ UNCHANGED <<lot_vars, balance_vars, io_vars>>

---------------------------------------------------------------------------
(* Year-end valuation: calculate_year_end_balances, lines 451-552.          *)
(*                                                                          *)
(* Here a datetime is the integer yyyymmddhh.  The column date of the       *)
(* ledger is the datetime normalized to midnight (app.py line 242), as are  *)
(* the dates of the price series (lines 613, 678).  Balances and prices are *)
(* small integers, which float() represents exactly.                        *)

(* Bound of the model: the number of rows of the ledger valued. *)
MaxEvents == 2

reference_asset == "ZEUR"
exception_assets == {"KFEE", "NFT"}
BalanceAssets == {"KFEE", "XBT", "ZEUR"}
EventTimes == {2022122910, 2022123112, 2023070108}
EventQuantities == {-1, 1}
PriceDates == {2022122900, 2022123100, 2023010200}

(* dt.normalize() *)
JustDate(datetime) == (datetime \div 100) * 100

(* dt.year *)
DateYear(date) == date \div 1000000

(* year_end_date, lines 468 and 496 *)
YearEnd(year) == year * 1000000 + 123100

LedgerEvent(a, dt, q) == [asset |-> a, quantity |-> q, datetime |-> dt, date |-> JustDate(dt)]

EventLedgers ==
    UNION {[1..n -> {LedgerEvent(a, dt, q) : a \in BalanceAssets, dt \in EventTimes,
                                              q \in EventQuantities}] : n \in 1..MaxEvents}

(* The price of XBT in the series, where the series has one for the date. *)
XBTPrice(date) ==
    CASE date = 2022122900 -> 20
      [] date = 2022123100 -> 30
      [] date = 2023010200 -> 40

(* The price series: XBT priced on any of PriceDates, or a series that      *)
(* prices another asset only.                                               *)
PriceSeries ==
    {[k \in {<<d, "XBT">> : d \in S} |-> XBTPrice(k[1])] : S \in SUBSET PriceDates}
        \cup {[k \in {<<2022123100, "ETH">>} |-> 7]}

Max(S) == CHOOSE x \in S : \A y \in S : y <= x

(* d with d[k] = v *)
Put(d, k, v) == [x \in DOMAIN d \cup {k} |-> IF x = k THEN v ELSE d[x]]

(* sorted(S) *)
Sorted(S) == CHOOSE p \in Orderings(S) : \A i \in 1..(Len(p) - 1) : p[i] < p[i + 1]

(* lines 457-458 *)
BeginBalances ==
    /\ bal_pc = "start"
    /\ years' = Sorted({DateYear(ledger_df[i].date) : i \in DOMAIN ledger_df})
    /\ year_pos' = 1
    /\ bal_pc' = "for_year"
    /\ UNCHANGED <<ledger_df, OHLC_df, balance_by_asset, asset_order, asset_pos, year_summary,
                   year_total_value, stdout, warnings, returned, year_balances>>
    /\ UNCHANGED <<lot_vars, tax_vars, io_vars>>

year == years[year_pos]

(* Mutant: the events of December 31 are left out. *)
IsUntilYearEnd_Strict(row, y) == row.date < YearEnd(y)

(* line 469: ledger_df['date'] <= year_end_date *)
IsUntilYearEnd(row, y) == row.date <= YearEnd(y)

(* The keys of balance_by_asset in the order lines 477-478 insert them. *)
RECURSIVE FirstSeen(_, _, _)
FirstSeen(rows, i, seen) ==
    IF i > Len(rows) THEN <<>>
    ELSE IF rows[i].asset \in seen THEN FirstSeen(rows, i + 1, seen)
         ELSE <<rows[i].asset>> \o FirstSeen(rows, i + 1, seen \cup {rows[i].asset})

(* lines 464-485: the balances of the year *)
BeginYear ==
    /\ bal_pc = "for_year"
    /\ year_pos <= Len(years)
    /\ LET ledger_until_year_end == SelectSeq(ledger_df, LAMBDA row : IsUntilYearEnd(row, year))
           n == Len(ledger_until_year_end)
           balances ==
               [a \in {ledger_until_year_end[i].asset : i \in 1..n} |->
                   SumOver(Column(ledger_until_year_end, "quantity"),
                           {i \in 1..n : ledger_until_year_end[i].asset = a}, n)]
       IN /\ balance_by_asset' = balances
          /\ asset_order' = FirstSeen(ledger_until_year_end, 1, {})
          /\ year_balances' = Put(year_balances, year, balances)
    /\ asset_pos' = 1
    /\ year_summary' = <<>>
    /\ year_total_value' = 0
    /\ bal_pc' = "for_asset"
    /\ UNCHANGED <<ledger_df, OHLC_df, years, year_pos, stdout, warnings, returned>>
    /\ UNCHANGED <<lot_vars, tax_vars, io_vars>>

asset == asset_order[asset_pos]
balance == balance_by_asset[asset]

(* Mutant: the assets of the exception set are listed as well. *)
IsListed_Exceptions(b, a) == b # 0

(* line 488 *)
IsListed(b, a) == b # 0 /\ a \notin exception_assets

(* line 498 *)
HasYearEndPrice(a, y) == OHLC_df # EmptyMap /\ <<YearEnd(y), a>> \in DOMAIN OHLC_df

(* line 505: the dates of asset_data *)
AvailableDates(a) == {k[1] : k \in {x \in DOMAIN OHLC_df : x[2] = a}}

(* Mutant: every date of the asset is taken for a date before the year end. *)
ValidDates_Any(a, y) == AvailableDates(a)

(* line 506 *)
ValidDates(a, y) == {d \in AvailableDates(a) : d <= YearEnd(y)}

(* lines 527-534 *)
AppendEntry(price, eur_value) ==
    /\ year_summary' = Append(year_summary, [Asset |-> asset, Balance |-> balance,
                                            Price |-> price, Value |-> eur_value])
    /\ year_total_value' = year_total_value + eur_value
    /\ asset_pos' = asset_pos + 1

Valuing ==
    /\ bal_pc = "for_asset"
    /\ asset_pos <= Len(asset_order)

(* line 488 false *)
SkipAsset ==
    /\ Valuing
    /\ ~IsListed(balance, asset)
    /\ asset_pos' = asset_pos + 1
    /\ UNCHANGED <<bal_pc, ledger_df, OHLC_df, years, year_pos, balance_by_asset, asset_order,
                   year_summary, year_total_value, stdout, warnings, returned, year_balances>>
    /\ UNCHANGED <<lot_vars, tax_vars, io_vars>>

(* lines 490-492 *)
ValueReferenceAsset ==
    /\ Valuing
    /\ IsListed(balance, asset)
    /\ asset = reference_asset
    /\ AppendEntry(1, balance)
    /\ UNCHANGED <<bal_pc, ledger_df, OHLC_df, years, year_pos, balance_by_asset, asset_order,
                   stdout, warnings, returned, year_balances>>
    /\ UNCHANGED <<lot_vars, tax_vars, io_vars>>

Pricing ==
    /\ Valuing
    /\ IsListed(balance, asset)
    /\ asset # reference_asset

(* lines 498-499 and 521 *)
PriceAtYearEnd ==
    /\ Pricing
    /\ HasYearEndPrice(asset, year)
    /\ LET price == OHLC_df[<<YearEnd(year), asset>>]
       IN AppendEntry(price, balance * price)
    /\ UNCHANGED <<bal_pc, ledger_df, OHLC_df, years, year_pos, balance_by_asset, asset_order,
                   stdout, warnings, returned, year_balances>>
    /\ UNCHANGED <<lot_vars, tax_vars, io_vars>>

(* lines 502-513 and 521: the latest price on or before the year end *)
PriceLatestBefore ==
    /\ Pricing
    /\ ~HasYearEndPrice(asset, year)
    /\ OHLC_df # EmptyMap
    /\ AvailableDates(asset) # {}
    /\ ValidDates(asset, year) # {}
    /\ LET latest_date == Max(ValidDates(asset, year))
           price == OHLC_df[<<latest_date, asset>>]
       IN AppendEntry(price, balance * price)
    /\ UNCHANGED <<bal_pc, ledger_df, OHLC_df, years, year_pos, balance_by_asset, asset_order,
                   stdout, warnings, returned, year_balances>>
    /\ UNCHANGED <<lot_vars, tax_vars, io_vars>>

(* lines 514-516 and 521 *)
NoPriceBefore ==
    /\ Pricing
    /\ ~HasYearEndPrice(asset, year)
    /\ OHLC_df # EmptyMap
    /\ AvailableDates(asset) # {}
    /\ ValidDates(asset, year) = {}
    /\ AppendEntry(0, balance * 0)
    /\ warnings' = warnings \cup {<<year, asset, "No price data found before year end">>}
    /\ UNCHANGED <<bal_pc, ledger_df, OHLC_df, years, year_pos, balance_by_asset, asset_order,
                   stdout, returned, year_balances>>
    /\ UNCHANGED <<lot_vars, tax_vars, io_vars>>

(* lines 502 and 517-521: the series is empty *)
NoPriceData ==
    /\ Pricing
    /\ OHLC_df = EmptyMap
    /\ AppendEntry(0, balance * 0)
    /\ warnings' = warnings \cup {<<year, asset, "No price data found">>}
    /\ UNCHANGED <<bal_pc, ledger_df, OHLC_df, years, year_pos, balance_by_asset, asset_order,
                   stdout, returned, year_balances>>
    /\ UNCHANGED <<lot_vars, tax_vars, io_vars>>

(* lines 502 and 522-525: the series has no row for the asset, xs raises    *)
(* KeyError and the handler takes over.                                     *)
PriceLookupRaises ==
    /\ Pricing
    /\ OHLC_df # EmptyMap
    /\ AvailableDates(asset) = {}
    /\ AppendEntry(0, 0)
    /\ warnings' = warnings \cup {<<year, asset, "Error getting price">>}
    /\ UNCHANGED <<bal_pc, ledger_df, OHLC_df, years, year_pos, balance_by_asset, asset_order,
                   stdout, returned, year_balances>>
    /\ UNCHANGED <<lot_vars, tax_vars, io_vars>>

(* The place of an asset name in alphabetical order. *)
NameOrder(a) ==
    CASE a = "KFEE" -> 1
      [] a = "XBT" -> 2
      [] a = "ZEUR" -> 3

(* line 537: year_summary.sort(key=lambda x: x['Asset']) *)
SortedByAsset(summary) ==
    LET p == CHOOSE q \in Orderings(DOMAIN summary) :
                 \A i \in 1..(Len(q) - 1) : NameOrder(summary[q[i]].Asset) <= NameOrder(summary[q[i + 1]].Asset)
    IN [i \in DOMAIN summary |-> summary[p[i]]]

(* lines 540-550: the table and the line TOTAL, or the line "No assets with *)
(* non-zero balance"; total holds the amount of the line TOTAL if printed.  *)
Printed(summary, total_value) ==
    IF summary # <<>>
    THEN [table |-> summary, total |-> <<total_value>>]
    ELSE [table |-> <<>>, total |-> <<>>]

(* lines 536-550 *)
PrintYear ==
    /\ bal_pc = "for_asset"
    /\ asset_pos > Len(asset_order)
    /\ year_summary' = SortedByAsset(year_summary)
    /\ stdout' = Put(stdout, year, Printed(SortedByAsset(year_summary), year_total_value))
    /\ year_pos' = year_pos + 1
    /\ bal_pc' = "for_year"
    /\ UNCHANGED <<ledger_df, OHLC_df, years, balance_by_asset, asset_order, asset_pos,
                   year_total_value, warnings, returned, year_balances>>
    /\ UNCHANGED <<lot_vars, tax_vars, io_vars>>

(* line 552 *)
ReturnSummary ==
    /\ bal_pc = "for_year"
    /\ year_pos > Len(years)
    /\ returned' = year_summary
    /\ bal_pc' = "done"
    /\ UNCHANGED <<ledger_df, OHLC_df, years, year_pos, balance_by_asset, asset_order, asset_pos,
                   year_summary, year_total_value, stdout, warnings, year_balances>>
    /\ UNCHANGED <<lot_vars, tax_vars, io_vars>>

---------------------------------------------------------------------------
(* KrakenWallet (src/backend/wallets/kraken_wallet.py): authenticate and    *)
(* synchronize.  The variable wallet is the object with its attributes and  *)
(* three histories: requests, the number of requests posted to the          *)
(* exchange; steps, the synchronization steps run; calls, the calls made    *)
(* with what the exchange answers at the time and what the call returned.   *)
(* None is the string "None"; last_sync is 0 for None and the time of the   *)
(* clock now otherwise.                                                     *)

(* Bound of the model: the number of calls made on a wallet. *)
MaxCalls == 3

ApiKeys == {"None", "", "key"}
ApiSecrets == {"None", "", "secret"}
(* What the exchange does with a ledger request: an answer with an empty    *)
(* error list, an answer with an error, or no answer (requests.post raises). *)
ExchangeAnswers == {"ok", "error", "unreachable"}

(* not x, for x None or a string *)
Not(x) == x \in {"None", ""}

(* datetime.now() - timedelta(days=1), line 81: a datetime object *)
Yesterday == [type |-> "datetime"]

(* _totimestamp, lines 454-458: strptime takes a string and raises          *)
(* TypeError for a datetime.                                                *)
totimestamp(date) == IF date.type = "str" THEN "timestamp" ELSE "TypeError"

(* _get_ledger, lines 467-476: the timestamp is computed before the request *)
(* is posted.  sent is the number of requests posted.                       *)
get_ledger(start_date, exchange) ==
    IF totimestamp(start_date) = "TypeError"
    THEN [outcome |-> "TypeError", sent |-> 0]
    ELSE [outcome |-> exchange, sent |-> 1]

(* authenticate, lines 66-95: the value of is_authenticated it leaves and   *)
(* returns, and the requests it posts.                                      *)
authenticate(w, exchange) ==
    IF Not(w.api_key) \/ Not(w.api_secret)
    THEN [is_authenticated |-> FALSE, sent |-> 0]
    ELSE LET ledger_response == get_ledger(Yesterday, exchange)
         IN [is_authenticated |-> ledger_response.outcome = "ok", sent |-> ledger_response.sent]

Authenticate ==
    /\ wallet.pc = "ready"
    /\ Len(wallet.calls) < MaxCalls
    /\ \E exchange \in ExchangeAnswers :
          LET a == authenticate(wallet, exchange)
          IN wallet' = [wallet EXCEPT
                 !.is_authenticated = a.is_authenticated,
                 !.requests = @ + a.sent,
                 !.now = @ + 1,
                 !.calls = Append(@, [call |-> "authenticate", exchange |-> exchange,
                                      result |-> a.is_authenticated])]
    /\ UNCHANGED <<core_vars, portfolio, credentials, retrieval, merge>>

(* Mutant: a failed synchronization reports success. *)
SyncFailure_Success(error) ==
    [success |-> TRUE, transactions_fetched |-> 0, balance_updated |-> FALSE,
     last_sync |-> "None", error |-> error]

(* lines 153-159 and 192-199 *)
SyncFailure(error) ==
    [success |-> FALSE, transactions_fetched |-> 0, balance_updated |-> FALSE,
     last_sync |-> "None", error |-> error]

SyncSteps == <<"transactions", "balance", "ohlc">>

(* synchronize, lines 139-199.  raised_at is the step that raises, 0 when   *)
(* none does.                                                               *)
Synchronize ==
    /\ wallet.pc = "ready"
    /\ Len(wallet.calls) < MaxCalls
    /\ \E exchange \in ExchangeAnswers, raised_at \in 0..3 :
          LET a == IF wallet.is_authenticated
                   THEN [is_authenticated |-> TRUE, sent |-> 0]
                   ELSE authenticate(wallet, exchange)
              w == [wallet EXCEPT !.is_authenticated = a.is_authenticated,
                                  !.requests = @ + a.sent,
                                  !.now = @ + 1]
              Returned(x, result) ==
                  [x EXCEPT !.calls = Append(@, [call |-> "synchronize", exchange |-> exchange,
                                                 result |-> result])]
          IN IF ~a.is_authenticated
             THEN wallet' = Returned(w, SyncFailure("Authentication failed"))
             ELSE IF raised_at # 0
                  THEN wallet' = Returned([w EXCEPT !.steps = @ \o SubSeq(SyncSteps, 1, raised_at)],
                                          SyncFailure("exception"))
                  ELSE wallet' =
                          Returned([w EXCEPT !.steps = @ \o SyncSteps, !.last_sync = w.now],
                                   [success |-> TRUE, transactions_fetched |-> 0,
                                    balance_updated |-> TRUE, ohlc_updated |-> TRUE,
                                    last_sync |-> w.now, error |-> "None"])
    /\ UNCHANGED <<core_vars, portfolio, credentials, retrieval, merge>>

(* KrakenWallet(api_key, api_secret), lines 40-60 and wallet.py lines 25-40 *)
NewWallet(api_key, api_secret) ==
    [pc |-> "ready", api_key |-> api_key, api_secret |-> api_secret,
     is_authenticated |-> FALSE, last_sync |-> 0, requests |-> 0, now |-> 1,
     steps |-> <<>>, calls |-> <<>>]

---------------------------------------------------------------------------
(* Portfolio, wallets/portfolio.py                                          *)
(*                                                                          *)
(* The variable portfolio holds a Portfolio object after the body of        *)
(* __init__: wallets_data, the list of wallet configurations in memory;     *)
(* file, the rows of the wallet file; call, the last call made on the       *)
(* object with its arguments; returned, what that call returned.  The       *)
(* constructor's os.makedirs(os.path.dirname(csv_file_path)) of line 38     *)
(* raises for a path without a directory part; the object modelled is one   *)
(* whose path has a directory part.                                         *)

(* Bound of the model: the number of wallets of a portfolio. *)
MaxWallets == 2

WalletTypes == {"Kraken", "Binance"}
(* the keys of self.wallet_types, lines 30-32 *)
wallet_types == {"Kraken"}
WalletNames == {"main", "Main"}

(* str.lower on the names and types of the model *)
Lower(s) ==
    CASE s = "Main" -> "main"
      [] s = "Kraken" -> "kraken"
      [] s = "Binance" -> "binance"
      [] OTHER -> s

(* Fernet encryption under the key of the portfolio, lines 76-96, and       *)
(* decryption, lines 98-120; a token made under another key does not        *)
(* decrypt.                                                                 *)
Plaintexts == {"key", "secret"}
Encrypt(s) == "fernet(" \o s \o ")"
Decrypts(t) == \E s \in Plaintexts : Encrypt(s) = t
Decrypt(t) == CHOOSE s \in Plaintexts : Encrypt(s) = t

(* wallet.get('api_key') and wallet.get('api_secret'), lines 138 and 205 *)
HasCredentials(config) == config.api_key # "" /\ config.api_secret # ""

(* None, where the other values are records *)
NoneObject == [is_none |-> TRUE]

(* get_wallet_by_id, lines 241-246: the first configuration with the id, or *)
(* None.                                                                    *)
get_wallet_by_id(wallets_data, wallet_id) ==
    IF \E i \in DOMAIN wallets_data : wallets_data[i].wallet_id = wallet_id
    THEN wallets_data[CHOOSE i \in DOMAIN wallets_data :
                          /\ wallets_data[i].wallet_id = wallet_id
                          /\ \A j \in 1..(i - 1) : wallets_data[j].wallet_id # wallet_id]
    ELSE NoneObject

(* _generate_wallet_id, lines 407-419: the base id, with the first free     *)
(* counter from 1 when the base id is taken.                                *)
WithCounter(base_id, n) == IF n = 0 THEN base_id ELSE base_id \o "_" \o ToString(n)

generate_wallet_id(wallets_data, wallet_type, name) ==
    LET base_id == Lower(wallet_type) \o "_" \o Lower(name)
        IdExists(n) == get_wallet_by_id(wallets_data, WithCounter(base_id, n)) # NoneObject
    IN WithCounter(base_id, CHOOSE n \in 0..(Len(wallets_data) + 1) :
                                ~IdExists(n) /\ \A k \in 0..(n - 1) : IdExists(k))

(* load_wallet, lines 248-278: a wallet instance, or None. *)
load_wallet(wallets_data, wallet_id) ==
    LET wallet_config == get_wallet_by_id(wallets_data, wallet_id)
    IN IF wallet_config = NoneObject THEN NoneObject
       ELSE IF wallet_config.wallet_type \notin wallet_types THEN NoneObject
       ELSE NewWallet(wallet_config.api_key, wallet_config.api_secret)

(* The rows _save_wallets_to_csv writes, lines 200-218. *)
EncryptedWallets(wallets_data) ==
    [i \in DOMAIN wallets_data |->
        IF HasCredentials(wallets_data[i])
        THEN [wallets_data[i] EXCEPT !.api_key = Encrypt(@), !.api_secret = Encrypt(@)]
        ELSE wallets_data[i]]

(* _save_wallets_to_csv, lines 180-226: the rows of the file afterwards. *)
save_wallets_to_csv(wallets_data, file) ==
    IF wallets_data = <<>> THEN file ELSE EncryptedWallets(wallets_data)

(* _load_wallets_from_csv, lines 129-152: the list read from the rows. *)
load_wallets_from_csv(file) ==
    [i \in DOMAIN file |->
        IF HasCredentials(file[i])
        THEN IF Decrypts(file[i].api_key) /\ Decrypts(file[i].api_secret)
             THEN [file[i] EXCEPT !.api_key = Decrypt(@), !.api_secret = Decrypt(@)]
             ELSE [file[i] EXCEPT !.is_active = "false"]
        ELSE file[i]]

(* A wallet configuration, lines 301-312. *)
WalletConfig(wallet_id, wallet_type, name, api_key, api_secret, is_active) ==
    [wallet_id |-> wallet_id, wallet_type |-> wallet_type, name |-> name,
     api_key |-> api_key, api_secret |-> api_secret, is_active |-> is_active]

(* add_wallet, lines 280-335.  The wallet instance is loaded by id from     *)
(* wallets_data at line 316, before the configuration is appended at line   *)
(* 327.                                                                     *)
AddWallet ==
    /\ portfolio.pc = "ready"
    /\ Len(portfolio.wallets_data) < MaxWallets
    /\ \E wallet_type \in WalletTypes, name \in WalletNames,
          api_key \in {"", "key"}, api_secret \in {"", "secret"},
          exchange \in ExchangeAnswers :
          LET wallet_id == generate_wallet_id(portfolio.wallets_data, wallet_type, name)
              wallet_instance == load_wallet(portfolio.wallets_data, wallet_id)
              is_active == IF authenticate(wallet_instance, exchange).is_authenticated
                           THEN "true" ELSE "false"
              wallet_config == WalletConfig(wallet_id, wallet_type, name,
                                            api_key, api_secret, is_active)
              added == Append(portfolio.wallets_data, wallet_config)
              Returned(x, result) ==
                  [x EXCEPT !.returned = result,
                            !.call = [name |-> "add_wallet", wallet_type |-> wallet_type,
                                      wallet_id |-> wallet_id]]
          IN IF wallet_type \notin wallet_types
             THEN portfolio' = Returned(portfolio, "None")
             ELSE IF get_wallet_by_id(portfolio.wallets_data, wallet_id) # NoneObject
             THEN portfolio' = Returned(portfolio, "None")
             ELSE IF wallet_instance = NoneObject
             THEN portfolio' = Returned(portfolio, "None")
             ELSE portfolio' =
                     Returned([portfolio EXCEPT
                                  !.wallets_data = added,
                                  !.file = save_wallets_to_csv(added, portfolio.file)],
                              wallet_id)
    /\ UNCHANGED <<core_vars, wallet, credentials, retrieval, merge>>

(* The ids a call of remove_wallet is made with: those of the list and one  *)
(* that is never given out.                                                 *)
UnknownId == "kraken_other"

(* remove_wallet, lines 337-348 *)
RemoveWallet ==
    /\ portfolio.pc = "ready"
    /\ \E wallet_id \in {portfolio.wallets_data[i].wallet_id : i \in DOMAIN portfolio.wallets_data}
                          \cup {UnknownId} :
          LET wallets_data == portfolio.wallets_data
              Returned(x, result) ==
                  [x EXCEPT !.returned = result,
                            !.call = [name |-> "remove_wallet", wallet_type |-> "None",
                                      wallet_id |-> wallet_id]]
          IN IF \E i \in DOMAIN wallets_data : wallets_data[i].wallet_id = wallet_id
             THEN LET i == CHOOSE i \in DOMAIN wallets_data :
                              /\ wallets_data[i].wallet_id = wallet_id
                              /\ \A j \in 1..(i - 1) : wallets_data[j].wallet_id # wallet_id
                      popped == SubSeq(wallets_data, 1, i - 1)
                                    \o SubSeq(wallets_data, i + 1, Len(wallets_data))
                  IN portfolio' =
                        Returned([portfolio EXCEPT
                                     !.wallets_data = popped,
                                     !.file = save_wallets_to_csv(popped, portfolio.file)],
                                 TRUE)
             ELSE portfolio' = Returned(portfolio, FALSE)
    /\ UNCHANGED <<core_vars, wallet, credentials, retrieval, merge>>

(* The wallet files a portfolio is constructed on: the rows an earlier      *)
(* portfolio saved, with credentials encrypted under the key or under       *)
(* another one, or without credentials.                                     *)
StoredCredentials ==
    {<<Encrypt("key"), Encrypt("secret")>>, <<"other(key)", "other(secret)">>, <<"", "">>}

StoredWallets ==
    {WalletConfig(WithCounter(Lower(t) \o "_main", n), t, "main", c[1], c[2], act) :
        t \in WalletTypes, n \in {0, 1}, c \in StoredCredentials, act \in {"true", "false"}}

WalletFiles ==
    {f \in UNION {[1..n -> StoredWallets] : n \in 0..MaxWallets} :
        \A i, j \in DOMAIN f : f[i].wallet_id = f[j].wallet_id => i = j}

(* Portfolio(), lines 26-46, on a wallet file. *)
NewPortfolio(file) ==
    [pc |-> "ready", wallets_data |-> load_wallets_from_csv(file), file |-> file,
     call |-> [name |-> "init", wallet_type |-> "None", wallet_id |-> "None"],
     returned |-> "None"]

---------------------------------------------------------------------------
(* The setup-credentials endpoint, app.py                                   *)
(*                                                                          *)
(* The variable credentials holds file, the content of                      *)
(* config/kraken_api_keys.json or NoFile; call, the last request with the   *)
(* exchange's behaviour at the time, the requests posted to the exchange    *)
(* and the value test_kraken_credentials returned; response, the answer of  *)
(* the endpoint; requests, the number of requests the endpoint has handled. *)

NoFile == [exists |-> FALSE]

(* str.strip on the strings posted *)
Strip(s) == IF s = " " THEN "" ELSE s

PostedKeys == {"", " ", "key", "wrongkey"}
(* "malformed" is a secret that is not base64 *)
PostedSecrets == {"", " ", "secret", "malformed"}

(* kraken.get_balance, kraken.py lines 219-223, through kraken_request,     *)
(* lines 96-102: get_kraken_signature's b64decode raises before the         *)
(* request for a malformed secret, requests.post raises when the exchange   *)
(* is unreachable, and otherwise the exchange's answer, with or without     *)
(* errors, is returned as parsed.                                           *)
get_balance(api_key, api_sec, exchange) ==
    IF api_sec = "malformed" THEN [outcome |-> "raises", sent |-> 0]
    ELSE IF exchange = "unreachable" THEN [outcome |-> "raises", sent |-> 1]
    ELSE [outcome |-> exchange, sent |-> 1]

(* What the exchange can do with a balance request: only the key "key"     *)
(* with the secret "secret" is answered without an error, and any request   *)
(* can be answered with one (invalid key, rate limit).                      *)
ExchangeAnswersTo(api_key, api_sec) ==
    IF api_key = "key" /\ api_sec = "secret" THEN ExchangeAnswers
    ELSE {"error", "unreachable"}

(* test_kraken_credentials, lines 107-118: True unless get_balance raises. *)
test_kraken_credentials(api_key, api_secret, exchange) ==
    get_balance(api_key, api_secret, exchange).outcome # "raises"

(* The file save_encrypted_credentials writes, lines 57-67. *)
SavedCredentials(api_key, api_secret) ==
    [exists |-> TRUE, KRAKEN_API_KEY |-> Encrypt(api_key), KRAKEN_API_SECRET |-> Encrypt(api_secret)]

Response(status, success) == [status |-> status, success |-> success]

(* setup_credentials, lines 120-159.  disk says whether                     *)
(* save_encrypted_credentials can write the file.                           *)
SetupCredentials ==
    /\ credentials.pc = "ready"
    /\ credentials.requests < MaxCalls
    /\ \E posted_key \in PostedKeys, posted_secret \in PostedSecrets, disk \in {"ok", "readonly"} :
       \E exchange \in ExchangeAnswersTo(Strip(posted_key), Strip(posted_secret)) :
          LET api_key == Strip(posted_key)
              api_secret == Strip(posted_secret)
              tested == get_balance(api_key, api_secret, exchange)
              valid == test_kraken_credentials(api_key, api_secret, exchange)
              Call(sent, result) ==
                  [api_key |-> api_key, api_secret |-> api_secret, exchange |-> exchange,
                   sent |-> sent, valid |-> result]
              handled == [credentials EXCEPT !.requests = @ + 1]
          IN IF api_key = "" \/ api_secret = ""
             THEN credentials' = [handled EXCEPT
                      !.call = Call(0, "None"), !.response = Response(400, FALSE)]
             ELSE IF ~valid
             THEN credentials' = [handled EXCEPT
                      !.call = Call(tested.sent, "False"), !.response = Response(400, FALSE)]
             ELSE IF disk = "ok"
             THEN credentials' = [handled EXCEPT
                      !.file = SavedCredentials(api_key, api_secret),
                      !.call = Call(tested.sent, "True"), !.response = Response(200, TRUE)]
             ELSE credentials' = [handled EXCEPT
                      !.call = Call(tested.sent, "True"), !.response = Response(500, FALSE)]
    /\ UNCHANGED <<core_vars, wallet, portfolio, retrieval, merge>>

(* The credential files of a start: none, or what an earlier setup saved. *)
CredentialFiles ==
    {NoFile} \cup {SavedCredentials(k, s) : k \in {"key", "wrongkey"}, s \in {"secret"}}

---------------------------------------------------------------------------
(* retrieve_all_ledger_data, kraken.py lines 182-216, and                   *)
(* KrakenWallet._retrieve_all_ledger_data, kraken_wallet.py lines 478-517   *)
(*                                                                          *)
(* The variable retrieval holds the locals of the function: rows is         *)
(* ledger_df.shape[0]; ofs and response are the offset of the last request  *)
(* and the answer to it.  iter_num is kept exactly up to MaxPages; a higher *)
(* value is kept as MaxPages, the offsets from there on being all past the  *)
(* last page the exchange has.                                              *)

(* Bound of the model: the pages the exchange's ledger has at most. *)
MaxPages == 2

tx_batch_size == 50

(* The counts the exchange reports and the rows a page carries. *)
Counts == {0, 20, 70}
PageRows == {0, 20, 50}

(* The answers of the exchange to a ledger request: error is whether the    *)
(* error list is not empty; an answer with errors may lack the key          *)
(* "result"; count is reported when the request asked for it.               *)
LedgerResponses(without_count) ==
    {[error |-> FALSE, result |-> TRUE, count |-> c, rows |-> k] :
        c \in IF without_count = "false" THEN Counts ELSE {-1}, k \in PageRows}
    \cup {[error |-> TRUE, result |-> TRUE, count |-> c, rows |-> 0] :
        c \in IF without_count = "false" THEN Counts ELSE {-1}}
    \cup {[error |-> TRUE, result |-> FALSE, count |-> -1, rows |-> 0]}

(* The request of line 192 and its answer. *)
Requested(r, response) ==
    [r EXCEPT !.ofs = r.iter_num * tx_batch_size, !.response = response]

(* lines 194-196 with the count read from the answer *)
WithCount(r, response) ==
    IF r.without_count = "false"
    THEN [r EXCEPT !.total_count = response.count, !.without_count = "true"]
    ELSE r

(* iter_num + 1, line 208 *)
NextIter(n) == IF n < MaxPages THEN n + 1 ELSE MaxPages

(* lines 212-213 *)
AfterError(r) ==
    [r EXCEPT !.has_new_transactions = r.consecutive_error_counter < 2,
              !.consecutive_error_counter = @ + 1]

(* lines 199-208 *)
AfterPage(r, response) ==
    [r EXCEPT !.consecutive_error_counter = 0,
              !.rows = @ + response.rows,
              !.has_new_transactions = (r.rows + response.rows) < r.total_count,
              !.iter_num = NextIter(@)]

(* line 195: the first answer has no "result", response_json["result"]      *)
(* raises KeyError.                                                         *)
CountRaises ==
    /\ retrieval.pc = "loop"
    /\ retrieval.has_new_transactions
    /\ retrieval.without_count = "false"
    /\ \E response \in LedgerResponses(retrieval.without_count) :
          /\ ~response.result
          /\ retrieval' = [Requested(retrieval, response) EXCEPT !.pc = "raised"]
    /\ UNCHANGED <<core_vars, wallet, portfolio, credentials, merge>>

(* An iteration of the loop on an answer without errors, lines 192-208. *)
ReceivePage ==
    /\ retrieval.pc = "loop"
    /\ retrieval.has_new_transactions
    /\ \E response \in LedgerResponses(retrieval.without_count) :
          /\ ~response.error
          /\ retrieval' = AfterPage(WithCount(Requested(retrieval, response), response), response)
    /\ UNCHANGED <<core_vars, wallet, portfolio, credentials, merge>>

(* An iteration of the loop on an answer with errors, lines 192-198 and     *)
(* 209-213.                                                                 *)
ReceiveError ==
    /\ retrieval.pc = "loop"
    /\ retrieval.has_new_transactions
    /\ \E response \in LedgerResponses(retrieval.without_count) :
          /\ response.error
          /\ response.result \/ retrieval.without_count = "true"
          /\ retrieval' = AfterError(WithCount(Requested(retrieval, response), response))
    /\ UNCHANGED <<core_vars, wallet, portfolio, credentials, merge>>

(* lines 214-216: the loop has ended; ledger_df["time"] raises KeyError for *)
(* a ledger without rows.                                                   *)
ReturnLedger ==
    /\ retrieval.pc = "loop"
    /\ ~retrieval.has_new_transactions
    /\ retrieval' = [retrieval EXCEPT !.pc = IF retrieval.rows = 0 THEN "raised" ELSE "returned"]
    /\ UNCHANGED <<core_vars, wallet, portfolio, credentials, merge>>

(* lines 183-190 *)
NewRetrieval ==
    [pc |-> "loop", has_new_transactions |-> TRUE, rows |-> 0, consecutive_error_counter |-> 0,
     iter_num |-> 0, total_count |-> 0, without_count |-> "false",
     ofs |-> -1, response |-> [error |-> FALSE, result |-> FALSE, count |-> -1, rows |-> 0]]

---------------------------------------------------------------------------
(* KrakenWallet._synchronize_transactions, kraken_wallet.py lines 304-350   *)
(*                                                                          *)
(* The variable merge holds ledger_file, the rows of the stored ledger      *)
(* (none when there is no file), and, once the function has returned,       *)
(* existing_df and new_df as it read them and the value returned.  A row    *)
(* is a ledger entry: its ledger id and its refid, the two legs of a trade  *)
(* having one refid (app.py lines 250-253 join them on it).                 *)

LedgerEntry(id, refid) == [id |-> id, refid |-> refid]

(* A trade of two legs, a deposit, and another trade. *)
LedgerEntries ==
    {LedgerEntry("L1", "T1"), LedgerEntry("L2", "T1"), LedgerEntry("L3", "D1"),
     LedgerEntry("L4", "T2"), LedgerEntry("L5", "T2")}

(* The order of the ledger ids. *)
IdRank(id) ==
    CASE id = "L1" -> 1 [] id = "L2" -> 2 [] id = "L3" -> 3 [] id = "L4" -> 4 [] id = "L5" -> 5

(* The frames of ledger entries: every entry at most once, in the order of  *)
(* the ledger ids.                                                          *)
LedgerFrames ==
    {f \in UNION {[1..n -> LedgerEntries] : n \in 0..Cardinality(LedgerEntries)} :
        \A i, j \in DOMAIN f : i < j => IdRank(f[i].id) < IdRank(f[j].id)}

(* pd.concat([new_df, existing_df], ignore_index=True), line 335 *)
Concat(new_df, existing_df) == new_df \o existing_df

(* drop_duplicates(subset=['refid'], keep='first'), line 336: of the rows   *)
(* with one refid the first is kept.                                        *)
RECURSIVE KeepFirst(_, _, _)
KeepFirst(df, i, seen) ==
    IF i > Len(df) THEN <<>>
    ELSE IF df[i].refid \in seen THEN KeepFirst(df, i + 1, seen)
    ELSE <<df[i]>> \o KeepFirst(df, i + 1, seen \cup {df[i].refid})

drop_duplicates(df) == KeepFirst(df, 1, {})

(* lines 304-350.  new_df is what _retrieve_all_ledger_data returns,        *)
(* unless it raises.                                                        *)
SynchronizeTransactions ==
    /\ merge.pc = "ready"
    /\ \E new_df \in LedgerFrames, raises \in BOOLEAN :
          LET existing_df == merge.ledger_file
              combined_df == IF existing_df # <<>>
                             THEN drop_duplicates(Concat(new_df, existing_df))
                             ELSE new_df
              Returned(file, fetched, result) ==
                  [pc |-> "returned", ledger_file |-> file, existing_df |-> existing_df,
                   new_df |-> fetched, returned |-> result]
          IN IF raises THEN merge' = Returned(merge.ledger_file, <<>>, 0)
             ELSE IF new_df = <<>> THEN merge' = Returned(merge.ledger_file, new_df, 0)
             ELSE merge' = Returned(combined_df, new_df, Len(new_df))
    /\ UNCHANGED <<core_vars, wallet, portfolio, credentials, retrieval>>

---------------------------------------------------------------------------
(* Specifications *)

(* The tax assessment is not running. *)
TaxIdle ==
    /\ tax_pc = "idle"
    /\ gains_final_df = <<>>
    /\ gains_by_year_asset = EmptyMap
    /\ gains_by_year = EmptyMap
    /\ taxes = EmptyMap

(* compute_taxes is not running. *)
LotIdle ==
    /\ input_ledger_df = <<>>
    /\ pc = "idle"
    /\ input_quantity_to_sell_df = <<>>
    /\ sell_pos = 0
    /\ ledger_out_df = <<>>
    /\ valid_ledger_df = <<>>
    /\ remaining_quantity_to_be_sold = 0
    /\ gain = 0
    /\ initial_purchase_value = 0
    /\ final_sale_value = 0
    /\ output_gains = EmptyMap
    /\ output_initial_values = EmptyMap
    /\ output_final_values = EmptyMap
    /\ gains_df = <<>>
    /\ matches = <<>>
    /\ input_ledger_without_sells_df = <<>>
    /\ ledger_out_ref = "none"

(* calculate_year_end_balances is not running. *)
BalancesIdle ==
    /\ bal_pc = "idle"
    /\ ledger_df = <<>>
    /\ OHLC_df = EmptyMap
    /\ years = <<>>
    /\ year_pos = 0
    /\ balance_by_asset = EmptyMap
    /\ asset_order = <<>>
    /\ asset_pos = 0
    /\ year_summary = <<>>
    /\ year_total_value = 0
    /\ stdout = EmptyMap
    /\ warnings = {}
    /\ returned = <<>>
    /\ year_balances = EmptyMap

(* An object of the wallet layer that does not exist in the run. *)
Absent == [pc |-> "idle"]

WalletIdle == wallet = Absent
PortfolioIdle == portfolio = Absent
CredentialsIdle == credentials = Absent
RetrievalIdle == retrieval = Absent
MergeIdle == merge = Absent

(* Nothing of the wallet layer is running. *)
IoIdle == WalletIdle /\ PortfolioIdle /\ CredentialsIdle /\ RetrievalIdle /\ MergeIdle

(* The cost-basis engine, the tax assessment and the valuation are not running. *)
CoreIdle == LotIdle /\ TaxIdle /\ BalancesIdle

Start(ledger) ==
    /\ input_ledger_df = ledger
    /\ pc = "compute_taxes"
    /\ input_quantity_to_sell_df = <<>>
    /\ sell_pos = 0
    /\ ledger_out_df = <<>>
    /\ valid_ledger_df = <<>>
    /\ remaining_quantity_to_be_sold = 0
    /\ gain = 0
    /\ initial_purchase_value = 0
    /\ final_sale_value = 0
    /\ output_gains = EmptyMap
    /\ output_initial_values = EmptyMap
    /\ output_final_values = EmptyMap
    /\ gains_df = <<>>
    /\ matches = <<>>
    /\ input_ledger_without_sells_df = <<>>
    /\ ledger_out_ref = "none"
    /\ TaxIdle
    /\ BalancesIdle
    /\ IoIdle

Init == \E ledger \in Ledgers : Start(ledger)

(* The worked example of the specification and its neighbours: two lots of  *)
(* asset A, 1.0 bought for 100 on 2021-01 and 1.0 bought for 200 on         *)
(* 2021-06, and one sale on 2021-12 at 300 a unit.  Quantities count        *)
(* tenths of a unit (15 is 1.5) and a price is the price of a tenth; the    *)
(* rows come in any order and the sale is of 0.5, 1.0, 1.5, 2.0 or 2.5.     *)
ExampleLot1 == TradeRow("A", 202101, 10, 10)
ExampleLot2 == TradeRow("A", 202106, 10, 20)
ExampleSell(q) == TradeRow("A", 202112, -q, 30)
ExampleSellQuantities == {5, 10, 15, 20, 25}

ExampleLedgers ==
    {l \in [1..3 -> {ExampleLot1, ExampleLot2} \cup {ExampleSell(q) : q \in ExampleSellQuantities}] :
        /\ \E i \in 1..3 : l[i] = ExampleLot1
        /\ \E i \in 1..3 : l[i] = ExampleLot2
        /\ \E i \in 1..3 : l[i].quantity < 0}

InitExample == \E ledger \in ExampleLedgers : Start(ledger)

Next ==
    \/ compute_taxes
    \/ BeginDisposal
    \/ MatchEntire
    \/ MatchPartial
    \/ MatchSkip
    \/ RemoveUsedRows
    \/ SaveResults
    \/ OutputResults

Spec == Init /\ [][Next]_vars

SpecExample == InitExample /\ [][Next]_vars

(* compute_taxes on the ledgers in which a disposal of asset A has a lot to *)
(* consume, with or without events of asset B.                              *)
DisposalLedgers ==
    {l \in Ledgers :
        \E i, j \in DOMAIN l :
            /\ l[i].asset = "A" /\ l[i].quantity > 0
            /\ l[j].asset = "A" /\ l[j].quantity < 0
            /\ l[i].datetime < l[j].datetime}

InitDisposal == \E ledger \in DisposalLedgers : Start(ledger)

SpecDisposal == InitDisposal /\ [][Next]_vars

(* The tax assessment of the records compute_taxes returned. *)
InitTax ==
    /\ LotIdle
    /\ BalancesIdle
    /\ IoIdle
    /\ tax_pc = "groupby"
    /\ gains_final_df \in GainFrames
    /\ gains_by_year_asset = EmptyMap
    /\ gains_by_year = EmptyMap
    /\ taxes = EmptyMap

NextTax ==
    \/ GroupGains
    \/ GroupGainsRaises
    \/ ApplyTaxes

SpecTax == InitTax /\ [][NextTax]_vars

(* The valuation of a ledger against a price series. *)
InitBalances ==
    /\ LotIdle
    /\ TaxIdle
    /\ IoIdle
    /\ bal_pc = "start"
    /\ ledger_df \in EventLedgers
    /\ OHLC_df \in PriceSeries
    /\ years = <<>>
    /\ year_pos = 0
    /\ balance_by_asset = EmptyMap
    /\ asset_order = <<>>
    /\ asset_pos = 0
    /\ year_summary = <<>>
    /\ year_total_value = 0
    /\ stdout = EmptyMap
    /\ warnings = {}
    /\ returned = <<>>
    /\ year_balances = EmptyMap

NextBalances ==
    \/ BeginBalances
    \/ BeginYear
    \/ SkipAsset
    \/ ValueReferenceAsset
    \/ PriceAtYearEnd
    \/ PriceLatestBefore
    \/ NoPriceBefore
    \/ NoPriceData
    \/ PriceLookupRaises
    \/ PrintYear
    \/ ReturnSummary

SpecBalances == InitBalances /\ [][NextBalances]_vars

(* Calls on a KrakenWallet. *)
InitWallet ==
    /\ CoreIdle
    /\ PortfolioIdle /\ CredentialsIdle /\ RetrievalIdle /\ MergeIdle
    /\ \E api_key \in ApiKeys, api_secret \in ApiSecrets : wallet = NewWallet(api_key, api_secret)

NextWallet ==
    \/ Authenticate
    \/ Synchronize

SpecWallet == InitWallet /\ [][NextWallet]_vars

(* Calls on a Portfolio. *)
InitPortfolio ==
    /\ CoreIdle
    /\ WalletIdle /\ CredentialsIdle /\ RetrievalIdle /\ MergeIdle
    /\ \E file \in WalletFiles : portfolio = NewPortfolio(file)

NextPortfolio ==
    \/ AddWallet
    \/ RemoveWallet

SpecPortfolio == InitPortfolio /\ [][NextPortfolio]_vars

(* Requests to the setup-credentials endpoint. *)
InitCredentials ==
    /\ CoreIdle
    /\ WalletIdle /\ PortfolioIdle /\ RetrievalIdle /\ MergeIdle
    /\ \E file \in CredentialFiles :
          credentials = [pc |-> "ready", file |-> file,
                         call |-> [api_key |-> "", api_secret |-> "", exchange |-> "ok",
                                   sent |-> 0, valid |-> "None"],
                         response |-> Response(0, FALSE), requests |-> 0]

NextCredentials == SetupCredentials

SpecCredentials == InitCredentials /\ [][NextCredentials]_vars

(* The retrieval of the ledger from the exchange. *)
InitRetrieval ==
    /\ CoreIdle
    /\ WalletIdle /\ PortfolioIdle /\ CredentialsIdle /\ MergeIdle
    /\ retrieval = NewRetrieval

NextRetrieval ==
    \/ CountRaises
    \/ ReceivePage
    \/ ReceiveError
    \/ ReturnLedger

SpecRetrieval == InitRetrieval /\ [][NextRetrieval]_vars

(* The function runs on: an iteration that can be made is made. *)
SpecRetrievalFair == SpecRetrieval /\ WF_vars(NextRetrieval)

(* A synchronization of the transactions on a stored ledger. *)
InitMerge ==
    /\ CoreIdle
    /\ WalletIdle /\ PortfolioIdle /\ CredentialsIdle /\ RetrievalIdle
    /\ \E file \in LedgerFrames : merge = [pc |-> "ready", ledger_file |-> file]

NextMerge == SynchronizeTransactions

SpecMerge == InitMerge /\ [][NextMerge]_vars

---------------------------------------------------------------------------
(* Properties *)

(* The lots as get_ledger_after_tax_computation receives them; position j   *)
(* is the index label of the lot in ledger_out_df.                          *)
Lots == SelectBuys(input_ledger_df, 1)

Taken == [k \in DOMAIN matches |-> matches[k].taken]
Cost == [k \in DOMAIN matches |-> matches[k].cost]
Proceeds == [k \in DOMAIN matches |-> matches[k].proceeds]

(* The quantity taken from lot j by the consumptions before the k-th. *)
TakenBefore(j, k) == SumOver(Taken, {i \in 1..(k - 1) : matches[i].index = j}, k - 1)

C2_Chronology ==
    [][\A j \in DOMAIN ledger_out_df :
          (j \notin DOMAIN ledger_out_df' \/ ledger_out_df'[j] # ledger_out_df[j])
          => /\ pc = "for_lot"
             /\ ledger_out_df[j].datetime < input_row.datetime]_vars

(* A disposal has consumed a lot while a lot of the same asset acquired at  *)
(* the same instant as the disposal, or later, is open.                     *)
C2_Witness ==
    /\ pc = "for_lot"
    /\ \E k \in DOMAIN matches : matches[k].sell = sell_pos /\ matches[k].taken > 0
    /\ \E j \in DOMAIN ledger_out_df :
          /\ ledger_out_df[j].asset = input_row.asset
          /\ ledger_out_df[j].datetime >= input_row.datetime
    /\ \E i, j \in DOMAIN input_ledger_df :
          /\ i < j
          /\ input_ledger_df[i].quantity > 0
          /\ input_ledger_df[j].quantity < 0
          /\ input_ledger_df[i].asset = input_ledger_df[j].asset
          /\ input_ledger_df[i].datetime >= input_ledger_df[j].datetime

(* C3. The disposals are processed in ascending order of datetime: the      *)
(* processing order is ascending, and every consumption made for an         *)
(* earlier disposal precedes every consumption made for a later one.        *)
C3_AscendingDisposals ==
    /\ \A i, j \in DOMAIN input_quantity_to_sell_df :
          i < j => input_quantity_to_sell_df[i].datetime <= input_quantity_to_sell_df[j].datetime
    /\ \A k1, k2 \in DOMAIN matches :
          matches[k1].sell_datetime < matches[k2].sell_datetime => k1 < k2

(* Two disposals that each consumed a lot, the later one standing first in  *)
(* the input ledger.                                                        *)
C3_Witness ==
    \E i, j \in DOMAIN input_ledger_df :
        /\ i < j
        /\ input_ledger_df[i].quantity < 0
        /\ input_ledger_df[j].quantity < 0
        /\ input_ledger_df[i].datetime > input_ledger_df[j].datetime
        /\ \E k1, k2 \in DOMAIN matches :
              /\ k1 < k2
              /\ matches[k1].taken > 0
              /\ matches[k2].taken > 0
              /\ matches[k1].sell_datetime = input_ledger_df[j].datetime
              /\ matches[k2].sell_datetime = input_ledger_df[i].datetime

Consumed(a) == SumOver(Taken, {k \in DOMAIN matches : matches[k].asset = a}, Len(matches))
Open(a) ==
    SumOver([j \in DOMAIN ledger_out_df |-> ledger_out_df[j].quantity],
            {j \in DOMAIN ledger_out_df : ledger_out_df[j].asset = a /\ ledger_out_df[j].isvalid},
            Len(input_ledger_df))
Acquired(a) ==
    LET L == Lots
    IN SumOver([j \in DOMAIN L |-> L[j].quantity], {j \in DOMAIN L : L[j].asset = a}, Len(L))
Disposed(a) ==
    SumOver([i \in DOMAIN input_ledger_df |-> -input_ledger_df[i].quantity],
            {i \in DOMAIN input_ledger_df :
                input_ledger_df[i].asset = a /\ input_ledger_df[i].quantity < 0},
            Len(input_ledger_df))

(* C5. Lot conservation: once the ledger is partitioned, for each asset the *)
(* quantity consumed from lots plus the quantity of the open lots equals    *)
(* the quantity of all acquisitions of the asset.                           *)
C5_LotConservation ==
    pc # "compute_taxes" =>
        \A a \in Assets : Consumed(a) + Open(a) = Acquired(a)

(* compute_taxes has returned for a ledger whose disposals of A do not     *)
(* exceed its acquisitions of A, part consumed and part still open.         *)
C5_Witness ==
    /\ pc = "done"
    /\ Disposed("A") <= Acquired("A")
    /\ Consumed("A") > 0
    /\ Open("A") > 0

(* C6. After a disposal is processed and in the inventory returned, every   *)
(* lot a disposal has touched has a remaining quantity greater than zero    *)
(* (a lot that reaches exactly zero is retired).                            *)
C6_ZeroLotRetired ==
    pc \in {"save", "for_sell", "done"} =>
        \A j \in DOMAIN ledger_out_df :
            (\E k \in DOMAIN matches : matches[k].index = j) => ledger_out_df[j].quantity > 0

(* C7. For every open lot total = quantity * price, in every state; and     *)
(* the cost charged for a lot consumed entirely is the quantity taken times *)
(* the unit cost of the lot.                                                *)
C7_RemainingCost ==
    /\ \A j \in DOMAIN ledger_out_df :
          ledger_out_df[j].total = ledger_out_df[j].quantity * ledger_out_df[j].price
    /\ LET L == Lots
       IN \A k \in DOMAIN matches :
             matches[k].entire => matches[k].cost = matches[k].taken * L[matches[k].index].price

(* A lot consumed in part by one disposal and entirely by a later one. *)
C7_Witness ==
    \E k1, k2 \in DOMAIN matches :
        /\ k1 < k2
        /\ matches[k1].index = matches[k2].index
        /\ ~matches[k1].entire
        /\ matches[k2].entire
        /\ matches[k2].taken > 0

(* The lots eligible for disposal s when its processing began, and what     *)
(* each of them held then.                                                  *)
EligibleAtStart(s) ==
    LET L == Lots
        sell == input_quantity_to_sell_df[s]
    IN {j \in DOMAIN L :
           /\ L[j].asset = sell.asset
           /\ L[j].datetime < sell.datetime
           /\ ~\E k \in DOMAIN matches :
                  matches[k].index = j /\ matches[k].entire /\ matches[k].sell < s}
QuantityAtStart(L, j, s) ==
    L[j].quantity
    - SumOver(Taken, {k \in DOMAIN matches : matches[k].index = j /\ matches[k].sell < s},
              Len(matches))
EligibleQuantity(s) ==
    LET L == Lots
    IN SumOver([j \in DOMAIN L |-> QuantityAtStart(L, j, s)], EligibleAtStart(s), Len(L))
EligibleCost(s) ==
    LET L == Lots
    IN SumOver([j \in DOMAIN L |-> QuantityAtStart(L, j, s) * L[j].price], EligibleAtStart(s), Len(L))
Insufficient(s) == input_quantity_to_sell_df[s].quantity > EligibleQuantity(s)

(* C8. Insufficient inventory: when the matching loop of a disposal whose   *)
(* quantity exceeds that of its eligible lots has ended, every eligible lot *)
(* is retired, proceeds, cost basis and gain are those of the eligible      *)
(* quantity alone, and the results are saved as for any other disposal.     *)
C8_InsufficientInventory ==
    pc = "save" =>
        LET eligible == EligibleAtStart(sell_pos)
            quantity == EligibleQuantity(sell_pos)
        IN input_row.quantity > quantity =>
            /\ \A j \in eligible :
                  /\ j \notin DOMAIN ledger_out_df
                  /\ \E k \in DOMAIN matches :
                        matches[k].sell = sell_pos /\ matches[k].index = j /\ matches[k].entire
            /\ \A j \in DOMAIN ledger_out_df :
                  ~( /\ ledger_out_df[j].asset = input_row.asset
                     /\ ledger_out_df[j].datetime < input_row.datetime )
            /\ final_sale_value = quantity * input_row.price
            /\ initial_purchase_value = EligibleCost(sell_pos)
            /\ gain = final_sale_value - initial_purchase_value
            /\ remaining_quantity_to_be_sold = input_row.quantity - quantity
            /\ ENABLED SaveResults

(* The loop of a disposal exceeding its two eligible lots has ended. *)
C8_Witness ==
    /\ pc = "save"
    /\ Insufficient(sell_pos)
    /\ Cardinality(EligibleAtStart(sell_pos)) >= 2
    /\ EligibleQuantity(sell_pos) > 0

(* The (calendar year of the disposal, asset) pairs among the disposals. *)
DisposalBuckets ==
    {<<input_ledger_df[i].datetime \div 100, input_ledger_df[i].asset>> :
        i \in {j \in DOMAIN input_ledger_df : input_ledger_df[j].quantity < 0}}
MatchesOf(y, a) ==
    {k \in DOMAIN matches : matches[k].sell_datetime \div 100 = y /\ matches[k].asset = a}

(* C9. The records returned are exactly one per (year of disposal, asset)   *)
(* pair among the disposals, each holding the sums of cost, proceeds and    *)
(* gain over the lot consumptions of the disposals of that asset in that    *)
(* year.                                                                    *)
C9_OneRecordPerBucket ==
    pc = "done" =>
        /\ {<<gains_df[i].year, gains_df[i].asset>> : i \in DOMAIN gains_df} = DisposalBuckets
        /\ Len(gains_df) = Cardinality(DisposalBuckets)
        /\ \A i \in DOMAIN gains_df :
              LET M == MatchesOf(gains_df[i].year, gains_df[i].asset)
                  n == Len(matches)
              IN /\ gains_df[i].initial_purchase_value = SumOver(Cost, M, n)
                 /\ gains_df[i].final_sale_value = SumOver(Proceeds, M, n)
                 /\ gains_df[i].gain = SumOver(Proceeds, M, n) - SumOver(Cost, M, n)

(* Two records returned, one of them for a disposal that consumed a lot     *)
(* acquired in an earlier year.                                             *)
C9_Witness ==
    /\ pc = "done"
    /\ Len(gains_df) >= 2
    /\ \E i \in DOMAIN gains_df :
          \E k \in MatchesOf(gains_df[i].year, gains_df[i].asset) :
              /\ matches[k].taken > 0
              /\ matches[k].lot_datetime \div 100 < gains_df[i].year

IsWorkedExample == \E i \in DOMAIN input_ledger_df : input_ledger_df[i] = ExampleSell(15)

(* C10. Worked example: lots (2021-01, 1.0, cost 100) and (2021-06, 1.0,    *)
(* cost 200) and a disposal (2021-12, 1.5, proceeds 450) consume the whole  *)
(* 2021-06 lot and then 0.5 of the 2021-01 lot; one record (2021, A) with   *)
(* cost basis 250, proceeds 450, gain 200; one open lot of 0.5 with cost    *)
(* 50.                                                                      *)
C10_WorkedExample ==
    (pc = "done" /\ IsWorkedExample) =>
        /\ gains_df = <<[year |-> 2021, asset |-> "A", gain |-> 200,
                         initial_purchase_value |-> 250, final_sale_value |-> 450]>>
        /\ Len(matches) = 2
        /\ matches[1].lot_datetime = 202106 /\ matches[1].taken = 10 /\ matches[1].cost = 200
        /\ matches[2].lot_datetime = 202101 /\ matches[2].taken = 5 /\ matches[2].cost = 50
        /\ {ledger_out_df[j] : j \in DOMAIN ledger_out_df}
              = {[asset |-> "A", datetime |-> 202101, quantity |-> 5, price |-> 10,
                  total |-> 50, isvalid |-> TRUE]}
        /\ Cardinality(DOMAIN ledger_out_df) = 1

(* compute_taxes has returned for the worked example. *)
C10_Witness ==
    /\ pc = "done"
    /\ IsWorkedExample
    /\ input_ledger_df[1].quantity < 0

(* C11. The computation leaves its inputs as they were: no step of          *)
(* compute_taxes or get_ledger_after_tax_computation changes a quantity,    *)
(* total, price or timestamp of the input ledger, of the table of lots      *)
(* handed to get_ledger_after_tax_computation or of the table of disposals, *)
(* and the remaining lots are held in an object of their own.               *)
C11_InputsUnchanged ==
    [][ /\ input_ledger_df' = input_ledger_df
        /\ pc # "compute_taxes" =>
              /\ input_ledger_without_sells_df' = input_ledger_without_sells_df
              /\ input_quantity_to_sell_df' = input_quantity_to_sell_df
        /\ ledger_out_ref' = "ledger_out_df" ]_vars

(* The computation has returned after reducing a lot in place and retiring  *)
(* another, with a ledger that held acquisitions and disposals.             *)
C11_Witness ==
    /\ pc = "done"
    /\ \E k \in DOMAIN matches : matches[k].taken > 0 /\ ~matches[k].entire
    /\ \E k \in DOMAIN matches : matches[k].entire
    /\ \E j \in DOMAIN ledger_out_df :
          ledger_out_df[j].quantity # input_ledger_without_sells_df[j].quantity

(* The net gain of year y over the records compute_taxes returned. *)
NetGain(y) ==
    SumOver(Column(gains_final_df, "gain"),
            {i \in DOMAIN gains_final_df : gains_final_df[i].year = y}, Len(gains_final_df))

(* C12. Threshold exemption: for the exemption year the tax due is 0 for    *)
(* every yearly gain with abs(gain) <= threshold, both bounds included, and *)
(* for a gain beyond the threshold by d in either direction the tax is      *)
(* d * rate with the sign of the gain, so there is no jump at the           *)
(* threshold.                                                               *)
C12_ThresholdExemption ==
    (tax_pc = "done" /\ ExemptionYear \in DOMAIN taxes) =>
        LET g == NetGain(ExemptionYear)
            d == Abs(g) - Threshold
        IN /\ d <= 0 => taxes[ExemptionYear] = DecimalZero
           /\ (d > 0 /\ g > 0) => taxes[ExemptionYear] = TimesRate(d)
           /\ (d > 0 /\ g < 0) => taxes[ExemptionYear] = TimesRate(-d)

(* The exemption year was assessed with a net gain one unit beyond the      *)
(* threshold, made of the records of two assets.                            *)
C12_Witness ==
    /\ tax_pc = "done"
    /\ ExemptionYear \in DOMAIN taxes
    /\ Abs(NetGain(ExemptionYear)) = Threshold + 1
    /\ Len(gains_final_df) = 2
    /\ gains_final_df[1].year = gains_final_df[2].year

(* C13. Excess-only taxation: for year 2024, gain 2500, threshold 2000 and  *)
(* rate 0.26 the taxable amount is 500 and the tax due is exactly 130.      *)
C13_ExactExample ==
    (tax_pc = "done" /\ 2024 \in DOMAIN taxes /\ gains_by_year[2024].gain = 2500) =>
        taxes[2024] = [cents |-> 13000, e20 |-> 0]

(* C14. The exemption is applied to the exemption year only, on that        *)
(* year's net gain over all assets; for every other year the tax is         *)
(* gain * rate, whatever the sign and the size of the gain.                 *)
C14_ExemptionYearOnly ==
    tax_pc = "done" =>
        \A y \in DOMAIN taxes :
            LET g == NetGain(y)
            IN IF y = 2024
               THEN taxes[y] = (IF Abs(g) <= Threshold THEN DecimalZero
                                ELSE IF g > 0 THEN TimesRate(g - Threshold)
                                     ELSE TimesRate(g + Threshold))
               ELSE taxes[y] = [cents |-> g * RateCents, e20 |-> g * RateExcess]

(* A year other than the exemption year was assessed with a loss smaller    *)
(* than the threshold, next to the exemption year.                          *)
C14_Witness ==
    /\ tax_pc = "done"
    /\ 2024 \in DOMAIN taxes
    /\ \E y \in DOMAIN taxes :
          /\ y # 2024
          /\ NetGain(y) < 0
          /\ Abs(NetGain(y)) <= Threshold
          /\ taxes[y].cents < 0

YearTotal(col, y) == IF y \in DOMAIN gains_by_year THEN gains_by_year[y][col] ELSE 0

YearAssetTotal(col, y, a) ==
    IF <<y, a>> \in DOMAIN gains_by_year_asset THEN gains_by_year_asset[<<y, a>>][col] ELSE 0

(* C15. Aggregation: grouping by year gives one entry for every year with   *)
(* a record and no other, the per-year gains, cost bases and proceeds sum   *)
(* to those of all records, and every per-year total is the sum of the      *)
(* year's per-(year, asset) totals.                                         *)
C15_Aggregation ==
    tax_pc \in {"apply", "done"} =>
        /\ DOMAIN gains_by_year = {gains_final_df[i].year : i \in DOMAIN gains_final_df}
        /\ \A col \in {"gain", "initial_purchase_value", "final_sale_value"} :
              /\ YearTotal(col, 2023) + YearTotal(col, 2024) + YearTotal(col, 2025)
                    = SumOver(Column(gains_final_df, col), DOMAIN gains_final_df, Len(gains_final_df))
              /\ \A y \in DOMAIN gains_by_year :
                    gains_by_year[y][col] = YearAssetTotal(col, y, "A") + YearAssetTotal(col, y, "B")

(* Two records of one year were grouped, one with a gain and one with a loss. *)
C15_Witness ==
    /\ tax_pc = "apply"
    /\ Len(gains_final_df) = 2
    /\ gains_final_df[1].year = gains_final_df[2].year
    /\ gains_final_df[1].gain > 0
    /\ gains_final_df[2].gain < 0

(* The rows of the ledger of asset a with a datetime in year y or earlier. *)
EventsUntil(y, a) ==
    {i \in DOMAIN ledger_df : ledger_df[i].asset = a /\ ledger_df[i].datetime \div 1000000 <= y}

CalendarYears == {ledger_df[i].datetime \div 1000000 : i \in DOMAIN ledger_df}

(* C16. Year-end balance: for each year Y present in the ledger the balance *)
(* of each asset is the sum of the signed quantities of all events dated on *)
(* or before December 31 of Y, from the start of history: every event of    *)
(* calendar year Y or earlier is counted for Y and for every later year.    *)
C16_YearEndBalance ==
    /\ bal_pc = "done" => DOMAIN year_balances = CalendarYears
    /\ \A y \in DOMAIN year_balances :
          \A a \in BalanceAssets :
              LET S == EventsUntil(y, a)
              IN IF S = {}
                 THEN a \notin DOMAIN year_balances[y]
                 ELSE /\ a \in DOMAIN year_balances[y]
                      /\ year_balances[y][a]
                            = SumOver(Column(ledger_df, "quantity"), S, Len(ledger_df))

(* Two years were valued, with an event in the daytime of December 31 of    *)
(* the first year, carried into the second.                                 *)
C16_Witness ==
    /\ bal_pc = "done"
    /\ DOMAIN year_balances = {2022, 2023}
    /\ \E i \in DOMAIN ledger_df :
          /\ ledger_df[i].datetime = 2022123112
          /\ year_balances[2022][ledger_df[i].asset] # 0
          /\ year_balances[2023][ledger_df[i].asset] # year_balances[2022][ledger_df[i].asset]

(* C17. Valuation output: the function yields for every year present in    *)
(* the ledger the year's list of entries ordered by asset name, with the    *)
(* year's grand total, the sum of the values of the entries listed.         *)
C17_ValuationOutput ==
    bal_pc = "done" =>
        \A y \in CalendarYears :
            /\ y \in DOMAIN stdout
            /\ returned = stdout[y].table
            /\ \A i \in 1..(Len(returned) - 1) :
                  NameOrder(returned[i].Asset) < NameOrder(returned[i + 1].Asset)

(* The dates of the series for asset a, and those up to the end of year y. *)
SeriesDates(a) == {k[1] : k \in {x \in DOMAIN OHLC_df : x[2] = a}}
DatesUntil(a, y) == {d \in SeriesDates(a) : d <= y * 1000000 + 123100}

(* The entries printed for year y. *)
Entries(y) == {stdout[y].table[i] : i \in DOMAIN stdout[y].table}

(* C18. Price selection: a listed asset other than the reference asset is   *)
(* priced at the price of December 31 of Y when the series has one, else at *)
(* the price of the latest date of the series for the asset on or before    *)
(* December 31 of Y, never at a price dated later; the reference asset is   *)
(* priced at 1.                                                             *)
C18_PriceSelection ==
    \A y \in DOMAIN stdout :
        \A e \in Entries(y) :
            IF e.Asset = "ZEUR"
            THEN e.Price = 1 /\ e.Value = e.Balance
            ELSE LET before == DatesUntil(e.Asset, y)
                     year_end == y * 1000000 + 123100
                 IN /\ year_end \in before => e.Price = OHLC_df[<<year_end, e.Asset>>]
                    /\ (year_end \notin before /\ before # {}) =>
                          e.Price = OHLC_df[<<Max(before), e.Asset>>]
                    /\ \A d \in SeriesDates(e.Asset) \ before : e.Price # OHLC_df[<<d, e.Asset>>]
                    /\ e.Value = e.Balance * e.Price

(* Two years were valued for an asset with a price at the end of the first  *)
(* year and prices before and after it: the first year took the price of    *)
(* December 31 and the second the later one.                                *)
C18_Witness ==
    /\ bal_pc = "done"
    /\ DOMAIN stdout = {2022, 2023}
    /\ SeriesDates("XBT") = {2022122900, 2022123100, 2023010200}
    /\ \E e \in Entries(2022) : e.Asset = "XBT" /\ e.Price = 30
    /\ \E e \in Entries(2023) : e.Asset = "XBT" /\ e.Price = 40
    /\ \E e \in Entries(2023) : e.Asset = "ZEUR"

(* The balance of asset a at the end of year y, 0 without an event. *)
BalanceAt(y, a) == IF a \in DOMAIN year_balances[y] THEN year_balances[y][a] ELSE 0

(* C19. Missing price data is not fatal: with an empty series, no entry for *)
(* the asset or entries only after the year end, the valuation always has a *)
(* next step until it returns, the asset is listed with its balance, price  *)
(* 0 and value 0 and a warning is printed; an asset with zero balance or of *)
(* the exception set is not listed.                                         *)
C19_MissingPrice ==
    /\ bal_pc \in {"start", "for_year", "for_asset"} => ENABLED NextBalances
    /\ \A y \in DOMAIN stdout :
          /\ \A e \in Entries(y) :
                /\ e.Balance # 0
                /\ e.Asset \notin {"KFEE", "NFT"}
          /\ \A a \in BalanceAssets \ {"ZEUR", "KFEE"} :
                (BalanceAt(y, a) # 0 /\ DatesUntil(a, y) = {}) =>
                    /\ [Asset |-> a, Balance |-> BalanceAt(y, a), Price |-> 0, Value |-> 0]
                          \in Entries(y)
                    /\ \E w \in warnings : w[1] = y /\ w[2] = a

(* The valuation returned for a series without a row for the asset held,    *)
(* next to an asset of the exception set with a balance.                    *)
C19_Witness ==
    /\ bal_pc = "done"
    /\ OHLC_df # EmptyMap
    /\ SeriesDates("XBT") = {}
    /\ \E y \in DOMAIN stdout :
          /\ \E e \in Entries(y) : e.Asset = "XBT" /\ e.Price = 0
          /\ BalanceAt(y, "KFEE") # 0

(* C20. Fallback pricing is surfaced: whenever an asset is valued at a      *)
(* price of a date earlier than the year end because the series has no      *)
(* price for the year end, a warning is printed for the asset and the year. *)
C20_FallbackWarned ==
    \A y \in DOMAIN stdout :
        \A e \in Entries(y) :
            ( /\ e.Asset # "ZEUR"
              /\ DatesUntil(e.Asset, y) # {}
              /\ (y * 1000000 + 123100) \notin DatesUntil(e.Asset, y) )
            => \E w \in warnings : w[1] = y /\ w[2] = e.Asset

(* C21. Invalid configuration is fatal before any computation: when the     *)
(* data holds no disposal of the exemption year, no tax entry is produced.  *)
C21_InvalidConfiguration ==
    (tax_pc # "idle"
        /\ ExemptionYear \notin {gains_final_df[i].year : i \in DOMAIN gains_final_df})
    => (gains_by_year = EmptyMap /\ taxes = EmptyMap)

LastCall == wallet.calls[Len(wallet.calls)]

(* C22. authenticate with a missing or empty API key or secret returns      *)
(* False, leaves is_authenticated False and sends no request; and after any *)
(* sequence of authenticate calls is_authenticated is True exactly when the *)
(* most recent call had credentials and an error-free ledger answer from    *)
(* the exchange.                                                            *)
C22_Authenticate ==
    (wallet.pc = "ready" /\ wallet.calls # <<>> /\ LastCall.call = "authenticate") =>
        /\ (wallet.api_key \in {"None", ""} \/ wallet.api_secret \in {"None", ""}) =>
              /\ LastCall.result = FALSE
              /\ wallet.is_authenticated = FALSE
              /\ wallet.requests = 0
        /\ wallet.is_authenticated
              <=> ( /\ wallet.api_key = "key"
                    /\ wallet.api_secret = "secret"
                    /\ LastCall.exchange = "ok" )

WalletIds(wallets_data) == [i \in DOMAIN wallets_data |-> wallets_data[i].wallet_id]

(* C24: add_wallet called with a supported wallet type adds the wallet and  *)
(* returns its new id, and get_wallet_by_id for the id returned finds the   *)
(* wallet.                                                                  *)
C24_AddWallet ==
    (portfolio.pc = "ready" /\ portfolio.call.name = "add_wallet"
        /\ portfolio.call.wallet_type \in wallet_types)
    => /\ portfolio.returned = portfolio.call.wallet_id
       /\ get_wallet_by_id(portfolio.wallets_data, portfolio.returned) # NoneObject

(* C30: the wallet file follows the list in memory: a portfolio loaded from *)
(* the file has the ids of the list, also after remove_wallet has removed   *)
(* the last wallet, and a remove_wallet that returned True leaves no row    *)
(* with the removed id in the file.                                         *)
C30_PersistenceFollowsMemory ==
    portfolio.pc = "ready"
    => /\ WalletIds(load_wallets_from_csv(portfolio.file)) = WalletIds(portfolio.wallets_data)
       /\ (portfolio.call.name = "remove_wallet" /\ portfolio.returned = TRUE)
          => \A i \in DOMAIN portfolio.file : portfolio.file[i].wallet_id # portfolio.call.wallet_id

(* C25: when the exchange answers the test request of setup-credentials     *)
(* with an error, test_kraken_credentials returns False, the endpoint       *)
(* answers 400 and the credential file is as it was.                        *)
C25_InvalidCredentialsNotStored ==
    [][(credentials'.call.sent = 1 /\ credentials'.call.exchange = "error")
        => /\ credentials'.call.valid = "False"
           /\ credentials'.response.status = 400
           /\ credentials'.file = credentials.file]_vars

(* The rows of one asset, in the order of the ledger. *)
FilterAsset(ledger, a) == SelectSeq(ledger, LAMBDA r : r.asset = a)

(* The lots of asset a of an inventory with labels in 1..n, in the order    *)
(* of their labels.                                                         *)
RECURSIVE LotsOfAsset(_, _, _, _)
LotsOfAsset(lots, a, j, n) ==
    IF j > n THEN <<>>
    ELSE (IF j \in DOMAIN lots /\ lots[j].asset = a THEN <<lots[j]>> ELSE <<>>)
            \o LotsOfAsset(lots, a, j + 1, n)

(* The entries of a dictionary keyed by (tax_year, asset) that are of asset a. *)
OfAsset(d, a) == [k \in {x \in DOMAIN d : x[2] = a} |-> d[k]]

(* The loop of lines 365-388 over the lots in the order given, from the     *)
(* inventory lots, and the removal of line 390.                             *)
RECURSIVE MatchLots(_, _, _, _, _)
MatchLots(lots, sell, order, remaining, acc) ==
    IF order = <<>> THEN [lots |-> ValidRows(lots), acc |-> acc]
    ELSE LET i == Head(order)
             row == lots[i]
         IN IF ~(remaining > 0) THEN MatchLots(lots, sell, Tail(order), remaining, acc)
            ELSE IF UsesEntireRow(remaining, row)
            THEN LET output_total == OutputTotal(row.quantity, sell)
                     original_cost == EntireOriginalCost(row)
                 IN MatchLots([lots EXCEPT ![i].isvalid = FALSE], sell, Tail(order),
                              remaining - row.quantity,
                              [gain |-> AccumulatedGain(acc.gain, output_total, original_cost),
                               initial |-> acc.initial + original_cost,
                               final |-> acc.final + output_total])
            ELSE LET output_total == OutputTotal(remaining, sell)
                     original_cost == PartialOriginalCost(remaining, row)
                 IN MatchLots([lots EXCEPT ![i].quantity = RemainingQuantity(row, remaining),
                                           ![i].total = row.total - original_cost],
                              sell, Tail(order), 0,
                              [gain |-> AccumulatedGain(acc.gain, output_total, original_cost),
                               initial |-> acc.initial + original_cost,
                               final |-> acc.final + output_total])

(* The results one disposal can leave, lines 341-395, from the results st. *)
DisposalOutcomes(st, sell) ==
    LET k == SellKey(sell)
    IN {LET m == MatchLots(st.lots, sell, p, sell.quantity,
                           [gain |-> 0, initial |-> 0, final |-> 0])
        IN [lots |-> m.lots,
            output_gains |-> [InitKey(st.output_gains, k) EXCEPT ![k] = @ + m.acc.gain],
            output_initial_values |->
                [InitKey(st.output_initial_values, k) EXCEPT ![k] = @ + m.acc.initial],
            output_final_values |->
                [InitKey(st.output_final_values, k) EXCEPT ![k] = @ + m.acc.final]] :
        p \in {q \in Orderings(Eligible(st.lots, sell)) : SortedDescending(st.lots, q)}}

RECURSIVE DisposalsFrom(_, _, _)
DisposalsFrom(st, sells, i) ==
    IF i > Len(sells) THEN {st}
    ELSE UNION {DisposalsFrom(next, sells, i + 1) : next \in DisposalOutcomes(st, sells[i])}

(* The results compute_taxes can return for a ledger: the open lots and the *)
(* three dictionaries.                                                      *)
ComputeTaxesOutcomes(ledger) ==
    UNION {DisposalsFrom([lots |-> SelectBuys(ledger, 1), output_gains |-> EmptyMap,
                          output_initial_values |-> EmptyMap,
                          output_final_values |-> EmptyMap],
                         [i \in DOMAIN p |-> SellRow(ledger[p[i]])], 1) :
           p \in {q \in Orderings(SellPositions(ledger)) : SortedAscending(ledger, q)}}

(* What a result says of asset a: its open lots in order, without their     *)
(* labels, and its entries of the three dictionaries.                       *)
ResultsOfAsset(st, a, n) ==
    [lots |-> LotsOfAsset(st.lots, a, 1, n),
     output_gains |-> OfAsset(st.output_gains, a),
     output_initial_values |-> OfAsset(st.output_initial_values, a),
     output_final_values |-> OfAsset(st.output_final_values, a)]

(* The results of the run. *)
RunResults ==
    [lots |-> ledger_out_df, output_gains |-> output_gains,
     output_initial_values |-> output_initial_values,
     output_final_values |-> output_final_values]

(* The records of asset a among the records returned. *)
RecordsOfAsset(records, a) ==
    {records[i] : i \in {j \in DOMAIN records : records[j].asset = a}}

(* The results and the records returned for the ledger are, for asset a,    *)
(* what compute_taxes can return for the rows of asset a alone.             *)
SameAsAlone(ledger, results, records, a) ==
    LET n == Len(ledger)
        mine == ResultsOfAsset(results, a, n)
    IN /\ \E alone \in ComputeTaxesOutcomes(FilterAsset(ledger, a)) :
             ResultsOfAsset(alone, a, n) = mine
       /\ RecordsOfAsset(records, a) =
             {[year |-> k[1], asset |-> a, gain |-> mine.output_gains[k],
               initial_purchase_value |-> mine.output_initial_values[k],
               final_sale_value |-> mine.output_final_values[k]] :
                 k \in DOMAIN mine.output_gains}

(* C26. Lot inventories are asset-local: a step of the processing of a      *)
(* disposal changes or removes no lot of another asset, and when            *)
(* compute_taxes has returned, the open lots and the gain records of every  *)
(* asset are what compute_taxes can return for the rows of that asset       *)
(* alone.                                                                   *)
C26_AssetLocal ==
    [][/\ \A j \in DOMAIN ledger_out_df :
             (j \notin DOMAIN ledger_out_df' \/ ledger_out_df'[j] # ledger_out_df[j])
             => ledger_out_df[j].asset = input_row.asset
       /\ pc' = "done"
             => \A a \in Assets : SameAsAlone(input_ledger_df, RunResults, gains_df', a)]_vars

(* compute_taxes has returned after a disposal of A consumed a lot of A     *)
(* acquired after a lot of B that the disposal left open.                   *)
C26_Witness ==
    /\ pc = "done"
    /\ \E k \in DOMAIN matches :
          /\ matches[k].asset = "A"
          /\ matches[k].taken > 0
          /\ \E j \in DOMAIN ledger_out_df :
                /\ ledger_out_df[j].asset = "B"
                /\ ledger_out_df[j].datetime < matches[k].lot_datetime

(* The step is an iteration of the retrieval loop that got an answer. *)
Iteration == retrieval.pc = "loop" /\ retrieval.has_new_transactions /\ retrieval' # retrieval

(* C27. Pagination: an iteration that gets an answer with errors leaves the *)
(* offset where it is and, unless it is the third in a row, the loop goes   *)
(* on to request it again; an iteration that gets an answer without errors  *)
(* resets the error counter and moves the offset on by 50; the loop gives   *)
(* up only on a third error in a row.                                       *)
C27_Pagination ==
    [][Iteration =>
        /\ retrieval'.ofs = retrieval.iter_num * tx_batch_size
        /\ retrieval'.response.error =>
              /\ retrieval'.iter_num = retrieval.iter_num
              /\ IF retrieval.consecutive_error_counter < 2
                 THEN retrieval'.pc = "loop" /\ retrieval'.has_new_transactions
                 ELSE retrieval'.pc = "loop" /\ ~retrieval'.has_new_transactions
        /\ ~retrieval'.response.error =>
              /\ retrieval'.consecutive_error_counter = 0
              /\ retrieval.iter_num < MaxPages => retrieval'.iter_num = retrieval.iter_num + 1
              /\ retrieval'.pc = "loop"]_vars

(* C28. The retrieval terminates: it returns or raises, whatever the        *)
(* exchange answers.                                                        *)
C28_Terminates == <>(retrieval.pc \in {"returned", "raised"})

(* The number of rows of a frame that are the entry e. *)
Occurrences(df, e) == Cardinality({i \in DOMAIN df : df[i] = e})

(* C29. After a synchronization that fetched rows, every entry fetched and  *)
(* every entry of the stored ledger is in the ledger written, once, the two *)
(* legs of a trade included.                                                *)
C29_MergeLosesNothing ==
    (merge.pc = "returned" /\ merge.returned > 0)
    => \A e \in LedgerEntries :
          (Occurrences(merge.new_df, e) + Occurrences(merge.existing_df, e) > 0)
          => Occurrences(merge.ledger_file, e) = 1

====
